---- MODULE Spec2Model ----
(***************************************************************************)
(* Model of the eBPF shaping engine of celestial-srv6: the host-side       *)
(* control plane (Register / SetBandwidth / SetLatency / Stop, package     *)
(* ebpfem) and the kernel scheduler program tc_main (net.c) that paces,    *)
(* drops and delays packets by stamping their departure time.              *)
(*                                                                         *)
(* Representation choices                                                  *)
(*   - a 64-bit nanosecond time is a pair <<seconds, nanoseconds>>, since  *)
(*     the horizon arithmetic of net.c exceeds 31 bits;                    *)
(*   - a 64-bit bandwidth argument is a pair of 32-bit words [hi, lo], so  *)
(*     that the Go conversion uint32(x) is the projection on lo;           *)
(*   - the uint32 that parseIPToLong reads from an IPv4 address is the     *)
(*     sequence of its four base-256 digits, least significant first;      *)
(*   - an IPv6 address is the sequence of its eight 16-bit groups.         *)
(***************************************************************************)
EXTENDS Integers, Sequences, FiniteSets, TLC

(***************************************************************************)
(* Bounds of the model                                                     *)
(***************************************************************************)
MaxHostBits == 2
MaxObjs == 2
MaxTicks == 1
MaxPkts == 2
MaxEnumBits == 9

(***************************************************************************)
(* Program constants                                                       *)
(***************************************************************************)
NS_PER_SEC == 1000000000
NS_PER_US == 1000
\* a horizon of three seconds
TIME_HORIZON_3S == <<3, 0>>

\* TIME_HORIZON_NS = 2000 * 1000 * 1000 ns, as <<seconds, nanoseconds>>
TIME_HORIZON_NS == <<(2000 * 1000 * 1000) \div NS_PER_SEC, (2000 * 1000 * 1000) % NS_PER_SEC>>
\* ECN_HORIZON_NS = 999999000000 ns = 999 s + 999000000 ns
ECN_HORIZON_NS == <<999, 999000000>>
\* declared next to type handleKbpsDelay, outside the files of ebpfem at hand
DEFAULT_BANDWIDTH_KBPS == 1000000
DEFAULT_LATENCY_US == 0

TC_ACT_OK == "TC_ACT_OK"
TC_ACT_SHOT == "TC_ACT_SHOT"

(***************************************************************************)
(* 64-bit times as <<seconds, nanoseconds>>                                *)
(***************************************************************************)
TsZero == <<0, 0>>

TsNorm(s, ns) == <<s + (ns \div NS_PER_SEC), ns % NS_PER_SEC>>

TsAdd(a, b) == TsNorm(a[1] + b[1], a[2] + b[2])

TsLt(a, b) == a[1] < b[1] \/ (a[1] = b[1] /\ a[2] < b[2])

TsLeq(a, b) == a = b \/ TsLt(a, b)

\* a - b for a >= b (every subtraction of net.c is taken on that side)
TsSub(a, b) ==
    IF a[2] >= b[2] THEN <<a[1] - b[1], a[2] - b[2]>>
    ELSE <<a[1] - b[1] - 1, a[2] + NS_PER_SEC - b[2]>>

TsMax(a, b) == IF TsLt(a, b) THEN b ELSE a

\* n nanoseconds, n below 2^31
TsOfNs(n) == TsNorm(0, n)

\* k * a for a small natural k
RECURSIVE TsTimes(_, _)
TsTimes(k, a) == IF k = 0 THEN TsZero ELSE TsAdd(a, TsTimes(k - 1, a))

\* 2^32 ns
TwoTo32Ns == <<4, 294967296>>

\* reduction modulo 2^32 of a nanosecond count: what a uint32 product keeps
RECURSIVE TsModU32(_)
TsModU32(a) == IF TsLt(a, TwoTo32Ns) THEN a ELSE TsModU32(TsSub(a, TwoTo32Ns))

(***************************************************************************)
(* Addresses                                                               *)
(***************************************************************************)
Pow2(n) == 2 ^ n

Min(a, b) == IF a < b THEN a ELSE b
Max(a, b) == IF a < b THEN b ELSE a

\* number of one bits in byte i of net.CIDRMask(bits, 32) or net.CIDRMask(bits, 128)
MaskOnes(bits, i) == Max(0, Min(8, bits - 8 * (i - 1)))

\* ip.Mask(mask): byte-wise AND with the mask
MaskIP(ip, bits) ==
    [i \in 1..Len(ip) |-> (ip[i] \div Pow2(8 - MaskOnes(bits, i))) * Pow2(8 - MaskOnes(bits, i))]

\* endIP[i] |= ^mask[i] on the masked start address
LastIP(startIP, bits) ==
    [i \in 1..Len(startIP) |-> startIP[i] + (Pow2(8 - MaskOnes(bits, i)) - 1)]

\* incrementIP: add one to the last byte, carrying while a byte wraps to 0
RECURSIVE incrementFrom(_, _)
incrementFrom(ip, j) ==
    IF j = 0 THEN ip
    ELSE LET b == (ip[j] + 1) % 256
             ip2 == [ip EXCEPT ![j] = b]
         IN  IF b > 0 THEN ip2 ELSE incrementFrom(ip2, j - 1)

incrementIP(ip) == incrementFrom(ip, Len(ip))

\* parseIPToLong on an IPv4 address: binary.Read(LittleEndian) of its four
\* bytes, i.e. the uint32 whose base-256 digit number i-1 is byte i
parseIPToLong(ip) == <<ip[1], ip[2], ip[3], ip[4]>>

\* byte(l >> sh) for a uint32 given by its digits, sh in {0, 8, 16, 24}
ByteAt(l, sh) == l[(sh \div 8) + 1]

\* the key bytes a uint32 is marshalled to by Map.Put on amd64 (native, little
\* endian): digit 0 first. This is the layout of iphdr->saddr in the kernel.
KeyBytes(l) == <<l[1], l[2], l[3], l[4]>>

(***************************************************************************)
(* Subnet enumeration and address derivation (utils.go, ebpfem.go,         *)
(* add_ipv6.sh)                                                            *)
(***************************************************************************)
\* for ip := startIP; !ip.Equal(endIP); incrementIP(ip) { append } ; append(endIP)
RECURSIVE walkNet(_, _, _)
walkNet(ip, endIP, longs) ==
    IF ip = endIP THEN Append(longs, parseIPToLong(endIP))
    ELSE walkNet(incrementIP(ip), endIP, Append(longs, parseIPToLong(ip)))

\* an enumeration that stops one address short of the last address of the subnet
parseNetToLongsShort(target) ==
    LET startIP == MaskIP(target.ip, target.bits)
        full == walkNet(startIP, LastIP(startIP, target.bits), <<>>)
    IN  SubSeq(full, 1, Len(full) - 1)

\* parseNetToLongs, IPv4 branch: target is [ip |-> 4 bytes, bits |-> prefix length]
parseNetToLongs(target) ==
    LET startIP == MaskIP(target.ip, target.bits)
        endIP == LastIP(startIP, target.bits)
    IN  walkNet(startIP, endIP, <<>>)

\* the digits of n in the given base, most significant first, no leading zeros
RECURSIVE Digits(_, _)
Digits(n, base) == IF n < base THEN <<n>> ELSE Append(Digits(n \div base, base), n % base)

\* the number a digit string denotes in the given base
RECURSIVE ParseDigits(_, _)
ParseDigits(ds, base) ==
    IF Len(ds) = 1 THEN ds[1]
    ELSE ParseDigits(SubSeq(ds, 1, Len(ds) - 1), base) * base + ds[Len(ds)]

\* net.IPv4(b1, b2, b3, b4).String(): the dotted decimal text, one digit string a part
IPv4String(b1, b2, b3, b4) == <<Digits(b1, 10), Digits(b2, 10), Digits(b3, 10), Digits(b4, 10)>>

\* net.ParseIP(text).To4()
ParseIPv4(text) == [i \in 1..4 |-> ParseDigits(text[i], 10)]

\* net.ParseIP of "fd00::h1:h2:h3:h4", each h a hexadecimal digit string: 8 groups
ParseIPv6(h1, h2, h3, h4) ==
    <<64768, 0, 0, 0, ParseDigits(h1, 16), ParseDigits(h2, 16), ParseDigits(h3, 16),
      ParseDigits(h4, 16)>>

\* a format that runs the hexadecimal digits of two octets together in a group
generateIPv6Packed(ipv4Addr) ==
    LET ip == ParseIPv4(ipv4Addr)
    IN  ParseIPv6(<<0>>, <<0>>, Digits(ip[1], 16) \o Digits(ip[2], 16),
                  Digits(ip[3], 16) \o Digits(ip[4], 16))

\* generateIPv6: Sprintf("fd00::%x:%x:%x:%x", ip[0], ip[1], ip[2], ip[3]), parsed
generateIPv6(ipv4Addr) ==
    LET ip == ParseIPv4(ipv4Addr)
    IN  ParseIPv6(Digits(ip[1], 16), Digits(ip[2], 16), Digits(ip[3], 16), Digits(ip[4], 16))

\* the IPv6 key SetBandwidth / SetLatency derive from an enumerated uint32:
\* net.IPv4(byte(ip>>24), byte(ip>>16&0xFF), byte(ip>>8&0xFF), byte(ip&0xFF)).String()
ipv6KeyOf(l) ==
    generateIPv6(IPv4String(ByteAt(l, 24), ByteAt(l, 16), ByteAt(l, 8), ByteAt(l, 0)))

\* add_ipv6.sh: the address a guest with IPv4 address p1.p2.p3.p4 gives itself,
\* "fd00::" and printf '%x' of the four parts in order
add_ipv6(ipv4) ==
    ParseIPv6(Digits(ipv4[1], 16), Digits(ipv4[2], 16), Digits(ipv4[3], 16),
              Digits(ipv4[4], 16))

\* target.String(), the key of vm.hbd: the address as given and the prefix length
IPNetString(target) == <<target.ip, target.bits>>

\* uint32(x) of a 64-bit argument [hi, lo]
uint32(x) == x.lo

W64(n) == [hi |-> 0, lo |-> n]

(***************************************************************************)
(* Input domains                                                           *)
(***************************************************************************)
Machines == {1, 2}
ExistingIfs == {"tap0"}
NetIfNames == ExistingIfs \cup {"tap9"}

\* targets of SetBandwidth / SetLatency: the nested subnets 10.0.0.10/31 and
\* 10.0.0.10/30 (the two widest the bound admits)
Targets == {[ip |-> <<10, 0, 0, 10>>, bits |-> 32 - h] : h \in (MaxHostBits - 1)..MaxHostBits}

Bandwidths == {W64(0), W64(1000)}
Latencies == {1000}

\* guests sending traffic, by IPv4 address; over IPv6 they use add_ipv6
Guests == {<<10, 0, 0, 9>>, <<10, 0, 0, 10>>}

EthTypes == {"ETH_P_IP", "ETH_P_IPV6", "ETH_P_ARP"}
IpTypes == {"IPPROTO_ICMP", "IPPROTO_ICMPV6", "IPPROTO_TCP", "IPPROTO_UDP", "IPPROTO_GRE"}
Lens == {2000}

\* the clock starts at Boot and moves in steps of TickNs
Boot == <<1, 0>>
TickNs == <<0, 500000000>>
MaxNow == TsAdd(Boot, TsTimes(MaxTicks, TickNs))

\* departure times a packet may carry on entry: none, stale, far ahead
Presets == {TsZero, <<0, 1000>>, <<4, 0>>}

(***************************************************************************)
(* State                                                                   *)
(***************************************************************************)
VARIABLES
    now,                     \* last reading of bpf_ktime_get_ns
    qdiscs,                  \* interface -> disciplines attached to it
    filters,                 \* interface -> object set whose tc_main is attached, 0 if none
    loaded,                  \* object set -> "open" | "closed"
    vms,                     \* e.vms: machine id -> [netIf, objs, hbd]
    IP_HANDLE_KBPS_DELAY,    \* object set -> (4 key bytes -> handle_kbps_delay)
    IPV6_HANDLE_KBPS_DELAY,  \* object set -> (8 groups -> handle_kbps_delay)
    ipv4_flow_map,           \* object set -> (4 key bytes -> last departure)
    ipv6_flow_map,           \* object set -> (8 groups -> last departure)
    last,                    \* the control-plane call made last, with its result
    skb,                     \* the packet tc_main handled last, as it leaves tc_main
    npkts,                   \* packets tc_main has found an entry for
    burst,                   \* the run of equal packets that followed a new flow state
    threads,                 \* goroutine -> its position and local variables
    locks,                   \* machine id -> goroutine holding v.Lock(), 0 if free
    calc,                    \* argument and result of a function applied on its own
    cpus                     \* CPU -> position and local variables of its tc_main

kernelMaps == <<IP_HANDLE_KBPS_DELAY, IPV6_HANDLE_KBPS_DELAY>>
flowMaps == <<ipv4_flow_map, ipv6_flow_map>>
links == <<qdiscs, filters>>
vars == <<now, qdiscs, filters, loaded, vms, IP_HANDLE_KBPS_DELAY,
          IPV6_HANDLE_KBPS_DELAY, ipv4_flow_map, ipv6_flow_map, last, skb, npkts,
          burst, threads, locks, calc, cpus>>
\* what a call or a packet handled in one piece leaves alone
aside == <<threads, locks, calc, cpus>>

Empty == <<>>
NoBurst == [on |-> FALSE]
NoSkb == [seen |-> FALSE]
NoCall == [op |-> "none"]
NoCalc == [fn |-> "none"]
Threads == {1, 2}
Cpus == {1, 2}
Idle == [pc |-> "idle"]

\* a fresh engine on a host whose interfaces carry the disciplines pre
InitWith(pre) ==
    /\ now = Boot
    /\ qdiscs = pre
    /\ filters = [i \in DOMAIN pre |-> 0]
    /\ loaded = <<>>
    /\ vms = Empty
    /\ IP_HANDLE_KBPS_DELAY = <<>>
    /\ IPV6_HANDLE_KBPS_DELAY = <<>>
    /\ ipv4_flow_map = <<>>
    /\ ipv6_flow_map = <<>>
    /\ last = NoCall
    /\ skb = NoSkb
    /\ npkts = 0
    /\ burst = NoBurst
    /\ threads = [t \in Threads |-> Idle]
    /\ locks = [m \in Machines |-> 0]
    /\ cpus = [c \in Cpus |-> Idle]

\* a fresh engine on a host that has the interfaces ifs, with no discipline yet
InitOn(ifs) == InitWith([i \in ifs |-> {}])

InitEngine == InitOn(ExistingIfs)

Init == InitEngine /\ calc = NoCalc

(***************************************************************************)
(* Control plane (ebpfem.go)                                               *)
(***************************************************************************)
\* Map.Put: insert or replace
Put(m, k, v) == (k :> v) @@ m

\* vm.getHBD: the entry of the target, created with the defaults when absent
\* a lookup that forgets what was configured before
getHBDFresh(hbd, target) ==
    [throttleRateKbps |-> DEFAULT_BANDWIDTH_KBPS, delayUs |-> DEFAULT_LATENCY_US]

getHBD(hbd, target) ==
    IF IPNetString(target) \in DOMAIN hbd THEN hbd[IPNetString(target)]
    ELSE [throttleRateKbps |-> DEFAULT_BANDWIDTH_KBPS, delayUs |-> DEFAULT_LATENCY_US]

\* a loop that pushes the entry into the IPv4 map only
RECURSIVE putAllV4Only(_, _, _)
putAllV4Only(ips, entry, maps) ==
    IF ips = <<>> THEN maps
    ELSE putAllV4Only(Tail(ips), entry,
                      [v4 |-> Put(maps.v4, KeyBytes(Head(ips)), entry), v6 |-> maps.v6])

\* for _, ip := range ips { Put(ip, hbd); Put(generateIPv6(..).IP, hbd) }
RECURSIVE putAll(_, _, _)
putAll(ips, entry, maps) ==
    IF ips = <<>> THEN maps
    ELSE putAll(Tail(ips), entry,
                [v4 |-> Put(maps.v4, KeyBytes(Head(ips)), entry),
                 v6 |-> Put(maps.v6, ipv6KeyOf(Head(ips)), entry)])

\* a QdiscAdd that replaces a discipline already there
qdiscAddReplace(netIf, kind) == TRUE

\* netlink.QdiscAdd: fails when the interface already has the discipline
qdiscAdd(netIf, kind) == kind \notin qdiscs[netIf]

Register(id, netIf, loadOk) ==
    /\ Len(loaded) < MaxObjs
    /\ LET k == Len(loaded) + 1
           exists == netIf \in DOMAIN qdiscs
           clsactOk == exists /\ qdiscAdd(netIf, "clsact")
           fqOk == clsactOk /\ qdiscAdd(netIf, "fq")
           filterOk == fqOk /\ filters[netIf] = 0
       IN  /\ last' = [op |-> "Register", id |-> id, netIf |-> netIf,
                       err |-> ~(loadOk /\ filterOk)]
           /\ IF ~loadOk
              THEN UNCHANGED <<loaded, kernelMaps, flowMaps, links, vms>>
              ELSE /\ loaded' = Append(loaded, "open")
                   /\ IP_HANDLE_KBPS_DELAY' = Append(IP_HANDLE_KBPS_DELAY, Empty)
                   /\ IPV6_HANDLE_KBPS_DELAY' = Append(IPV6_HANDLE_KBPS_DELAY, Empty)
                   /\ ipv4_flow_map' = Append(ipv4_flow_map, Empty)
                   /\ ipv6_flow_map' = Append(ipv6_flow_map, Empty)
                   /\ qdiscs' = IF ~clsactOk THEN qdiscs
                                ELSE IF ~fqOk THEN [qdiscs EXCEPT ![netIf] = @ \cup {"clsact"}]
                                ELSE [qdiscs EXCEPT ![netIf] = @ \cup {"clsact", "fq"}]
                   /\ filters' = IF filterOk THEN [filters EXCEPT ![netIf] = k] ELSE filters
                   /\ vms' = IF filterOk
                             THEN (id :> [netIf |-> netIf, objs |-> k, hbd |-> Empty]) @@ vms
                             ELSE vms
    /\ skb' = NoSkb
    /\ UNCHANGED <<now, npkts, burst, aside>>

\* a body that goes on to the bookkeeping although the machine is unknown
setFieldNoReturn(op, source, target, arg, field, value) ==
    IF source \notin DOMAIN vms
    THEN /\ last' = [op |-> op, id |-> source, target |-> target,
                     arg |-> arg, err |-> TRUE]
         /\ vms' = (source :> [netIf |-> "", objs |-> 0,
                                hbd |-> Put(Empty, IPNetString(target),
                                            [getHBD(Empty, target) EXCEPT ![field] = value])])
                    @@ vms
         /\ UNCHANGED kernelMaps
    ELSE LET v == vms[source]
             hbd == [getHBD(v.hbd, target) EXCEPT ![field] = value]
             ips == parseNetToLongs(target)
             open == loaded[v.objs] = "open"
             maps == putAll(ips, hbd, [v4 |-> IP_HANDLE_KBPS_DELAY[v.objs],
                                       v6 |-> IPV6_HANDLE_KBPS_DELAY[v.objs]])
         IN  /\ last' = [op |-> op, id |-> source, target |-> target,
                         arg |-> arg, err |-> ~open]
             /\ vms' = [vms EXCEPT ![source].hbd = Put(@, IPNetString(target), hbd)]
             /\ IF open
                THEN /\ IP_HANDLE_KBPS_DELAY' = [IP_HANDLE_KBPS_DELAY EXCEPT ![v.objs] = maps.v4]
                     /\ IPV6_HANDLE_KBPS_DELAY' = [IPV6_HANDLE_KBPS_DELAY EXCEPT ![v.objs] = maps.v6]
                ELSE UNCHANGED kernelMaps

\* the body shared by SetBandwidth and SetLatency once the field is chosen
setField(op, source, target, arg, field, value) ==
    IF source \notin DOMAIN vms
    THEN /\ last' = [op |-> op, id |-> source, target |-> target,
                     arg |-> arg, err |-> TRUE]
         /\ UNCHANGED <<vms, kernelMaps>>
    ELSE LET v == vms[source]
             hbd == [getHBD(v.hbd, target) EXCEPT ![field] = value]
             ips == parseNetToLongs(target)
             open == loaded[v.objs] = "open"
             maps == putAll(ips, hbd, [v4 |-> IP_HANDLE_KBPS_DELAY[v.objs],
                                       v6 |-> IPV6_HANDLE_KBPS_DELAY[v.objs]])
         IN  /\ last' = [op |-> op, id |-> source, target |-> target,
                         arg |-> arg, err |-> ~open]
             /\ vms' = [vms EXCEPT ![source].hbd = Put(@, IPNetString(target), hbd)]
             /\ IF open
                THEN /\ IP_HANDLE_KBPS_DELAY' = [IP_HANDLE_KBPS_DELAY EXCEPT ![v.objs] = maps.v4]
                     /\ IPV6_HANDLE_KBPS_DELAY' = [IPV6_HANDLE_KBPS_DELAY EXCEPT ![v.objs] = maps.v6]
                ELSE UNCHANGED kernelMaps

\* a SetBandwidth that starts the flows of every program afresh
SetBandwidthNewFlows(source, target, bandwidthKbits) ==
    /\ setField("SetBandwidth", source, target, bandwidthKbits,
                "throttleRateKbps", uint32(bandwidthKbits))
    /\ skb' = NoSkb
    /\ ipv4_flow_map' = [k \in DOMAIN ipv4_flow_map |-> Empty]
    /\ ipv6_flow_map' = [k \in DOMAIN ipv6_flow_map |-> Empty]
    /\ UNCHANGED <<links, loaded, now, npkts, burst, aside>>

SetBandwidth(source, target, bandwidthKbits) ==
    /\ setField("SetBandwidth", source, target, bandwidthKbits,
                "throttleRateKbps", uint32(bandwidthKbits))
    /\ skb' = NoSkb
    /\ UNCHANGED <<links, loaded, now, flowMaps, npkts, burst, aside>>

SetLatency(source, target, latency) ==
    /\ setField("SetLatency", source, target, latency, "delayUs", latency)
    /\ skb' = NoSkb
    /\ UNCHANGED <<links, loaded, now, flowMaps, npkts, burst, aside>>

\* Stop: close the objects of the machines in map order, up to the first error
RECURSIVE closeAll(_, _, _)
closeAll(order, failing, ld) ==
    IF order = <<>> THEN ld
    ELSE IF Head(order) \in failing THEN ld
    ELSE closeAll(Tail(order), failing, [ld EXCEPT ![vms[Head(order)].objs] = "closed"])

Orders(S) == {o \in [1..Cardinality(S) -> S] : \A i, j \in 1..Cardinality(S) : i # j => o[i] # o[j]}

\* the machine whose Close makes Stop return its error, 0 if none does
RECURSIVE firstError(_, _)
firstError(order, failing) ==
    IF order = <<>> THEN 0
    ELSE IF Head(order) \in failing THEN Head(order)
    ELSE firstError(Tail(order), failing)

Stop(order, failing) ==
    /\ loaded' = closeAll(order, failing, loaded)
    /\ last' = [op |-> "Stop", err |-> \E i \in 1..Len(order) : order[i] \in failing,
                at |-> firstError(order, failing)]
    /\ skb' = NoSkb
    /\ UNCHANGED <<links, vms, kernelMaps, now, flowMaps, npkts, burst, aside>>

(***************************************************************************)
(* Kernel scheduler program (net.c)                                        *)
(***************************************************************************)
\* x / 1000 on a 64-bit nanosecond count
TsDiv1000(a) == <<a[1] \div 1000, (a[1] % 1000) * 1000000 + (a[2] \div 1000)>>

\* the nanosecond count as an integer, for counts below 2^31
TsToNs(a) == a[1] * NS_PER_SEC + a[2]

\* delay_ns = ((uint64_t)skb->len) * NS_PER_SEC / 1000 / *throttle_rate_kbps
txDelayNs(len, throttle_rate_kbps) ==
    TsOfNs(TsToNs(TsDiv1000(<<len, 0>>)) \div throttle_rate_kbps)

\* a pacing that charges a packet it drops at the horizon to the flow
throttle_flowChargeDrops(flow, key, len, skbTstamp, throttle_rate_kbps, clock) ==
    IF throttle_rate_kbps = 0
    THEN [ret |-> TC_ACT_SHOT, tstamp |-> skbTstamp, flow |-> flow, ce |-> FALSE,
          stamped |-> FALSE, wrote |-> FALSE]
    ELSE LET delay_ns == txDelayNs(len, throttle_rate_kbps)
             next_tstamp == IF key \in DOMAIN flow THEN TsAdd(flow[key], delay_ns) ELSE TsZero
             tstamp == IF TsLt(skbTstamp, clock) THEN clock ELSE skbTstamp
         IN  IF TsLeq(next_tstamp, tstamp)
             THEN [ret |-> TC_ACT_OK, tstamp |-> skbTstamp, flow |-> Put(flow, key, tstamp),
                   ce |-> FALSE, stamped |-> FALSE, wrote |-> TRUE]
             ELSE IF ~TsLt(TsSub(next_tstamp, clock), TIME_HORIZON_NS)
             THEN [ret |-> TC_ACT_SHOT, tstamp |-> skbTstamp,
                   flow |-> Put(flow, key, next_tstamp), ce |-> FALSE,
                   stamped |-> FALSE, wrote |-> TRUE]
             ELSE [ret |-> TC_ACT_OK, tstamp |-> next_tstamp,
                   flow |-> Put(flow, key, next_tstamp),
                   ce |-> ~TsLt(TsSub(next_tstamp, clock), ECN_HORIZON_NS),
                   stamped |-> TRUE, wrote |-> TRUE]

\* a pacing that counts the next slot from the clock, not from the last departure
throttle_flowFromNow(flow, key, len, skbTstamp, throttle_rate_kbps, clock) ==
    IF throttle_rate_kbps = 0
    THEN [ret |-> TC_ACT_SHOT, tstamp |-> skbTstamp, flow |-> flow, ce |-> FALSE,
          stamped |-> FALSE, wrote |-> FALSE]
    ELSE LET delay_ns == txDelayNs(len, throttle_rate_kbps)
             next_tstamp == IF key \in DOMAIN flow THEN TsAdd(clock, delay_ns) ELSE TsZero
             tstamp == IF TsLt(skbTstamp, clock) THEN clock ELSE skbTstamp
         IN  IF TsLeq(next_tstamp, tstamp)
             THEN [ret |-> TC_ACT_OK, tstamp |-> skbTstamp, flow |-> Put(flow, key, tstamp),
                   ce |-> FALSE, stamped |-> FALSE, wrote |-> TRUE]
             ELSE IF ~TsLt(TsSub(next_tstamp, clock), TIME_HORIZON_NS)
             THEN [ret |-> TC_ACT_SHOT, tstamp |-> skbTstamp, flow |-> flow, ce |-> FALSE,
                   stamped |-> FALSE, wrote |-> FALSE]
             ELSE [ret |-> TC_ACT_OK, tstamp |-> next_tstamp,
                   flow |-> Put(flow, key, next_tstamp),
                   ce |-> ~TsLt(TsSub(next_tstamp, clock), ECN_HORIZON_NS),
                   stamped |-> TRUE, wrote |-> TRUE]

\* throttle_flow_ipv4 / throttle_flow_ipv6 on the flow map of the family:
\* the verdict, skb->tstamp on return, the flow map on return, the ECN mark
throttle_flow(flow, key, len, skbTstamp, throttle_rate_kbps, clock) ==
    IF throttle_rate_kbps = 0
    THEN [ret |-> TC_ACT_SHOT, tstamp |-> skbTstamp, flow |-> flow, ce |-> FALSE,
          stamped |-> FALSE, wrote |-> FALSE]
    ELSE LET delay_ns == txDelayNs(len, throttle_rate_kbps)
             next_tstamp == IF key \in DOMAIN flow THEN TsAdd(flow[key], delay_ns) ELSE TsZero
             tstamp == IF TsLt(skbTstamp, clock) THEN clock ELSE skbTstamp
         IN  IF TsLeq(next_tstamp, tstamp)
             THEN [ret |-> TC_ACT_OK, tstamp |-> skbTstamp, flow |-> Put(flow, key, tstamp),
                   ce |-> FALSE, stamped |-> FALSE, wrote |-> TRUE]
             ELSE IF ~TsLt(TsSub(next_tstamp, clock), TIME_HORIZON_NS)
             THEN [ret |-> TC_ACT_SHOT, tstamp |-> skbTstamp, flow |-> flow, ce |-> FALSE,
                   stamped |-> FALSE, wrote |-> FALSE]
             ELSE [ret |-> TC_ACT_OK, tstamp |-> next_tstamp,
                   flow |-> Put(flow, key, next_tstamp),
                   ce |-> ~TsLt(TsSub(next_tstamp, clock), ECN_HORIZON_NS),
                   stamped |-> TRUE, wrote |-> TRUE]

throttle_flow_ipv4(flow, ip_address, len, skbTstamp, rate, clock) ==
    throttle_flow(flow, ip_address, len, skbTstamp, rate, clock)

throttle_flow_ipv6(flow, ip_address, len, skbTstamp, rate, clock) ==
    throttle_flow(flow, ip_address, len, skbTstamp, rate, clock)

\* delay_us * NS_PER_US without wrap-around
UsToNs(delay_us) == <<delay_us \div 1000000, (delay_us % 1000000) * NS_PER_US>>

\* uint64_t delay_ns = (*delay_us) * NS_PER_US: the product is a uint32
injectDelayNs(delay_us) == TsModU32(UsToNs(delay_us))

\* inject_delay: skb->tstamp on return; clock is read only when tstamp is 0
inject_delay(skbTstamp, delay_us, clock) ==
    IF skbTstamp = TsZero THEN TsAdd(clock, injectDelayNs(delay_us))
    ELSE TsAdd(skbTstamp, injectDelayNs(delay_us))

\* the address tc_main looks the packet up under: iphdr->saddr / ipv6hdr->saddr
\* a lookup under the address the packet is sent to
lookupByDaddr(p) == p.daddr

lookupAddress(p) == p.saddr

\* a filter that takes GRE for a shaped protocol
ShapedV4WithGRE == {"IPPROTO_ICMP", "IPPROTO_TCP", "IPPROTO_UDP", "IPPROTO_GRE"}

\* the protocols tc_main shapes, per family
ShapedV4 == {"IPPROTO_ICMP", "IPPROTO_TCP", "IPPROTO_UDP"}
ShapedV6 == {"IPPROTO_ICMPV6", "IPPROTO_TCP", "IPPROTO_UDP"}

Shaped(p) ==
    \/ p.eth = "ETH_P_IP" /\ p.proto \in ShapedV4
    \/ p.eth = "ETH_P_IPV6" /\ p.proto \in ShapedV6

\* the packets of the model: guest src sends to guest dst
Packet(eth, proto, src, dst, len, tstamp) ==
    [eth |-> eth, proto |-> proto,
     saddr |-> IF eth = "ETH_P_IPV6" THEN add_ipv6(src) ELSE src,
     daddr |-> IF eth = "ETH_P_IPV6" THEN add_ipv6(dst) ELSE dst,
     len |-> len, tstamp |-> tstamp]

\* an ARP frame carries no IP header: its protocol field is not an input
Packets ==
    {Packet(hd[1], hd[2], g[1], g[2], len, ts) :
        hd \in {h \in EthTypes \X IpTypes : h[1] = "ETH_P_ARP" => h[2] = "IPPROTO_ICMP"},
        g \in {h \in Guests \X Guests : h[1] # h[2]},
        len \in Lens, ts \in Presets}

\* the run of equal packets that follows the creation of a flow state
nextBurst(k, p, entry, key, flow, r, seen) ==
    LET eq == burst.on /\ burst.objs = k /\ burst.eth = p.eth /\ burst.key = key
    IN  IF ~r.wrote /\ eq THEN NoBurst
        ELSE IF ~r.wrote THEN burst
        ELSE IF key \notin DOMAIN flow
        THEN [on |-> TRUE, objs |-> k, eth |-> p.eth, key |-> key,
              rate |-> entry.throttleRateKbps, len |-> p.len, t0 |-> seen, n |-> 1,
              prev |-> TsZero, seen |-> seen, dep |-> r.flow[key],
              preset |-> p.tstamp # TsZero, inSlot |-> TRUE]
        ELSE IF eq /\ burst.rate = entry.throttleRateKbps /\ burst.len = p.len
        THEN [burst EXCEPT !.n = @ + 1, !.prev = burst.dep, !.seen = seen,
                           !.dep = r.flow[key],
                           !.preset = @ \/ p.tstamp # TsZero,
                           !.inSlot = @ /\ TsLeq(seen, TsAdd(burst.dep,
                                                 txDelayNs(p.len, entry.throttleRateKbps)))]
        ELSE IF eq THEN NoBurst
        ELSE burst

\* skb as it leaves tc_main, with what tc_main read on the way
Verdict(k, p, hit, r, final, clock, clock2, had, lastTs, entry) ==
    [seen |-> TRUE, objs |-> k, eth |-> p.eth, shaped |-> Shaped(p), saddr |-> p.saddr,
     daddr |-> p.daddr, len |-> p.len, preset |-> p.tstamp, hit |-> hit, ret |-> r.ret,
     tstamp |-> final, ce |-> r.ce, stamped |-> r.stamped, bw |-> r.tstamp,
     clock |-> clock, clock2 |-> clock2, had |-> had, lastTs |-> lastTs, entry |-> entry]

Untouched(p) ==
    [ret |-> TC_ACT_OK, tstamp |-> p.tstamp, ce |-> FALSE, stamped |-> FALSE]

NoEntry == [throttleRateKbps |-> 0, delayUs |-> 0]

\* one flow map for both families, as a draft of net.c had it
flowMapShared(eth) == "ipv4_flow_map"

\* the flow map throttle_flow_ipv4 / throttle_flow_ipv6 looks up and updates
flowMapOf(eth) == IF eth = "ETH_P_IP" THEN "ipv4_flow_map" ELSE "ipv6_flow_map"

\* a tc_main that records the delayed departure as the flow's last departure
tc_mainDelayInFlow(dev, p, d) ==
    /\ filters[dev] # 0
    /\ UNCHANGED <<links, loaded, vms, kernelMaps, aside>>
    /\ last' = NoCall
    /\ LET k == filters[dev]
           v4 == p.eth = "ETH_P_IP"
           table == IF v4 THEN IP_HANDLE_KBPS_DELAY[k] ELSE IPV6_HANDLE_KBPS_DELAY[k]
           flow == IF flowMapOf(p.eth) = "ipv4_flow_map" THEN ipv4_flow_map[k]
                   ELSE ipv6_flow_map[k]
           ip_address == lookupAddress(p)
           hit == Shaped(p) /\ ip_address \in DOMAIN table
       IN  IF ~hit
           THEN /\ d = TsZero
                /\ skb' = Verdict(k, p, FALSE, Untouched(p), p.tstamp, now, now, FALSE, TsZero,
                                  NoEntry)
                /\ UNCHANGED <<now, flowMaps, npkts, burst>>
           ELSE LET val_struct == table[ip_address]
                    r == IF v4
                         THEN throttle_flow_ipv4(flow, ip_address, p.len, p.tstamp,
                                                 val_struct.throttleRateKbps, now)
                         ELSE throttle_flow_ipv6(flow, ip_address, p.len, p.tstamp,
                                                 val_struct.throttleRateKbps, now)
                    reads == r.ret = TC_ACT_OK /\ r.tstamp = TsZero
                    seen == IF TsLt(p.tstamp, now) THEN now ELSE p.tstamp
                    had == ip_address \in DOMAIN flow
                IN  /\ npkts < MaxPkts
                    /\ npkts' = npkts + 1
                    /\ (~reads => d = TsZero)
                    /\ TsLeq(TsAdd(now, d), MaxNow)
                    /\ now' = TsAdd(now, d)
                    /\ skb' = Verdict(k, p, TRUE, r,
                                      IF r.ret = TC_ACT_OK
                                      THEN inject_delay(r.tstamp, val_struct.delayUs, now')
                                      ELSE r.tstamp,
                                      now, now', had,
                                      IF had THEN flow[ip_address] ELSE TsZero, val_struct)
                    /\ LET written == IF r.wrote /\ r.ret = TC_ACT_OK
                                       THEN Put(r.flow, ip_address, skb'.tstamp)
                                       ELSE r.flow
                       IN  IF flowMapOf(p.eth) = "ipv4_flow_map"
                           THEN /\ ipv4_flow_map' = [ipv4_flow_map EXCEPT ![k] = written]
                                /\ UNCHANGED ipv6_flow_map
                           ELSE /\ ipv6_flow_map' = [ipv6_flow_map EXCEPT ![k] = written]
                                /\ UNCHANGED ipv4_flow_map
                    /\ burst' = nextBurst(k, p, val_struct, ip_address, flow, r, seen)

\* tc_main on a packet leaving interface dev; d is the time that passes before
\* inject_delay reads the clock
tc_main(dev, p, d) ==
    /\ filters[dev] # 0
    /\ UNCHANGED <<links, loaded, vms, kernelMaps, aside>>
    /\ last' = NoCall
    /\ LET k == filters[dev]
           v4 == p.eth = "ETH_P_IP"
           table == IF v4 THEN IP_HANDLE_KBPS_DELAY[k] ELSE IPV6_HANDLE_KBPS_DELAY[k]
           flow == IF flowMapOf(p.eth) = "ipv4_flow_map" THEN ipv4_flow_map[k]
                   ELSE ipv6_flow_map[k]
           ip_address == lookupAddress(p)
           hit == Shaped(p) /\ ip_address \in DOMAIN table
       IN  IF ~hit
           THEN /\ d = TsZero
                /\ skb' = Verdict(k, p, FALSE, Untouched(p), p.tstamp, now, now, FALSE, TsZero,
                                  NoEntry)
                /\ UNCHANGED <<now, flowMaps, npkts, burst>>
           ELSE LET val_struct == table[ip_address]
                    r == IF v4
                         THEN throttle_flow_ipv4(flow, ip_address, p.len, p.tstamp,
                                                 val_struct.throttleRateKbps, now)
                         ELSE throttle_flow_ipv6(flow, ip_address, p.len, p.tstamp,
                                                 val_struct.throttleRateKbps, now)
                    reads == r.ret = TC_ACT_OK /\ r.tstamp = TsZero
                    seen == IF TsLt(p.tstamp, now) THEN now ELSE p.tstamp
                    had == ip_address \in DOMAIN flow
                IN  /\ npkts < MaxPkts
                    /\ npkts' = npkts + 1
                    /\ (~reads => d = TsZero)
                    /\ TsLeq(TsAdd(now, d), MaxNow)
                    /\ now' = TsAdd(now, d)
                    /\ skb' = Verdict(k, p, TRUE, r,
                                      IF r.ret = TC_ACT_OK
                                      THEN inject_delay(r.tstamp, val_struct.delayUs, now')
                                      ELSE r.tstamp,
                                      now, now', had,
                                      IF had THEN flow[ip_address] ELSE TsZero, val_struct)
                    /\ IF flowMapOf(p.eth) = "ipv4_flow_map"
                       THEN /\ ipv4_flow_map' = [ipv4_flow_map EXCEPT ![k] = r.flow]
                            /\ UNCHANGED ipv6_flow_map
                       ELSE /\ ipv6_flow_map' = [ipv6_flow_map EXCEPT ![k] = r.flow]
                            /\ UNCHANGED ipv4_flow_map
                    /\ burst' = nextBurst(k, p, val_struct, ip_address, flow, r, seen)

\* time passes between two events
Tick ==
    /\ TsLeq(TsAdd(now, TickNs), MaxNow)
    /\ now' = TsAdd(now, TickNs)
    /\ UNCHANGED <<links, loaded, vms, kernelMaps, flowMaps, last, skb, npkts, burst, aside>>

(***************************************************************************)
(* Specifications                                                          *)
(***************************************************************************)
\* the control plane under every input of its domains
DoRegister == \E id \in Machines, netIf \in NetIfNames, loadOk \in BOOLEAN : Register(id, netIf, loadOk)

DoSetBandwidth == \E m \in Machines, t \in Targets, b \in Bandwidths : SetBandwidth(m, t, b)

DoSetLatency == \E m \in Machines, t \in Targets, l \in Latencies : SetLatency(m, t, l)

DoStop == \E o \in Orders(DOMAIN vms), f \in SUBSET (DOMAIN vms) : Stop(o, f)

Next == DoRegister \/ DoSetBandwidth \/ DoSetLatency \/ DoStop

Spec == Init /\ [][Next]_vars

\* the control plane on a host with two tap interfaces, one per machine
StopIfs == {"tap0", "tap1"}

InitStop == InitOn(StopIfs) /\ calc = NoCalc

StopRegister == \E id \in Machines, netIf \in StopIfs, loadOk \in BOOLEAN : Register(id, netIf, loadOk)

StopSetBandwidth ==
    \E m \in Machines : SetBandwidth(m, [ip |-> <<10, 0, 0, 10>>, bits |-> 32], W64(1000))

NextStop == StopRegister \/ StopSetBandwidth \/ DoStop

SpecStop == InitStop /\ [][NextStop]_vars

\* the control plane on a host whose two interfaces may carry a discipline
\* before the engine starts
Disciplines == {"clsact", "fq"}

InitReg == calc = NoCalc /\ \E pre \in [StopIfs -> SUBSET Disciplines] : InitWith(pre)

RegRegister ==
    \E id \in Machines, netIf \in StopIfs \cup NetIfNames, loadOk \in BOOLEAN :
        Register(id, netIf, loadOk)

NextReg == RegRegister \/ StopSetBandwidth \/ DoStop

SpecReg == InitReg /\ [][NextReg]_vars

\* the data plane of one machine shaping one peer, with the control plane
\* changing that peer's entry while traffic flows
PktMachine == 1
PktTarget == [ip |-> <<10, 0, 0, 10>>, bits |-> 32]
PktBandwidths == {W64(0), W64(1)}
PktLatencies == {1000}

\* the machine under observation is registered once, on the existing interface
PktRegister == vms = Empty /\ Register(PktMachine, "tap0", TRUE)

PktSetBandwidth == \E b \in PktBandwidths : SetBandwidth(PktMachine, PktTarget, b)

PktSetLatency == \E l \in PktLatencies : SetLatency(PktMachine, PktTarget, l)

DoPacket == \E dev \in ExistingIfs, p \in Packets, d \in {TsZero, TickNs} : tc_main(dev, p, d)

NextPkt == PktRegister \/ PktSetBandwidth \/ PktSetLatency \/ DoPacket \/ Tick

SpecPkt == Init /\ [][NextPkt]_vars

\* a burst of TCP segments from the shaped peer at a rate whose transmission
\* time is one tick, with every call of the control plane arriving in between
FlowBandwidths == {W64(0), W64(4)}

FlowPackets ==
    {Packet(eth, "IPPROTO_TCP", PktTarget.ip, <<10, 0, 0, 9>>, len, ts) :
        eth \in {"ETH_P_IP", "ETH_P_IPV6"}, len \in Lens, ts \in {TsZero, <<4, 0>>}}

FlowRegister == \E id \in Machines : Register(id, "tap0", TRUE)

FlowSetBandwidth == \E b \in FlowBandwidths : SetBandwidth(PktMachine, PktTarget, b)

FlowPacket == \E dev \in ExistingIfs, p \in FlowPackets, d \in {TsZero, TickNs} : tc_main(dev, p, d)

NextFlow == FlowRegister \/ FlowSetBandwidth \/ PktSetLatency \/ DoStop \/ FlowPacket \/ Tick

SpecFlow == Init /\ [][NextFlow]_vars

\* the data plane under requests from the upper end of the API's ranges: a rate
\* of 2^32 kbit/s (bandwidthKbits is 64 bits wide) and a latency of 4294968 us,
\* the first whose nanosecond count needs more than 32 bits
WideBandwidths == {[hi |-> 1, lo |-> 0], W64(1000000)}
WideLatencies == {1000, 4294968}

WideSetBandwidth == \E b \in WideBandwidths : SetBandwidth(PktMachine, PktTarget, b)

WideSetLatency == \E l \in WideLatencies : SetLatency(PktMachine, PktTarget, l)

WidePackets ==
    {Packet(eth, "IPPROTO_TCP", PktTarget.ip, <<10, 0, 0, 9>>, len, ts) :
        eth \in {"ETH_P_IP", "ETH_P_IPV6"}, len \in Lens, ts \in {TsZero, <<0, 1000>>}}

WidePacket == \E dev \in ExistingIfs, p \in WidePackets, d \in {TsZero, TickNs} : tc_main(dev, p, d)

NextWide == PktRegister \/ WideSetBandwidth \/ WideSetLatency \/ WidePacket \/ Tick

SpecWide == Init /\ [][NextWide]_vars

(***************************************************************************)
(* SetBandwidth and SetLatency step by step, as two goroutines run them    *)
(* (ebpfem.go).  vms[m].hbd[key] is the struct the table points to; a      *)
(* goroutine's hbd pointer is "table" while it points to that struct and   *)
(* "private", with the struct in val, once the table points elsewhere.     *)
(***************************************************************************)
ConcTargets == Targets
ConcBandwidths == {W64(1000)}
ConcLatencies == Latencies

Other(t) == CHOOSE u \in Threads : u # t

Running(t) == threads[t].pc \notin {"idle", "done"}

\* e.RLock(); v, ok := e.vms[source]; e.RUnlock(); if !ok { return error }
beginCall(t, op, source, target, arg, field, value) ==
    /\ threads[t].pc = "idle"
    /\ threads' = [threads EXCEPT ![t] =
                      [pc |-> IF source \in DOMAIN vms THEN "lock" ELSE "done",
                       op |-> op, source |-> source, target |-> target, arg |-> arg,
                       field |-> field, value |-> value, ptr |-> "none", val |-> NoEntry,
                       todo |-> <<>>, stage |-> "v4", err |-> source \notin DOMAIN vms,
                       overlap |-> Running(Other(t))]]
    /\ UNCHANGED <<now, links, loaded, vms, kernelMaps, flowMaps, last, skb, npkts, burst,
                   locks, calc, cpus>>

\* a lock that lets everybody in
lockIgnored(m) == TRUE

\* v.Lock() returns once no other goroutine holds the machine's lock
lockFree(m) == locks[m] = 0

\* v.Lock()
lockVM(t) ==
    /\ threads[t].pc = "lock"
    /\ lockFree(threads[t].source)
    /\ locks' = [locks EXCEPT ![threads[t].source] = t]
    /\ threads' = [threads EXCEPT ![t].pc = "getHBD"]
    /\ UNCHANGED <<now, links, loaded, vms, kernelMaps, flowMaps, last, skb, npkts, burst,
                   calc, cpus>>

\* getHBD: hbd, ok := v.hbd[target.String()]; if ok { return hbd }
getHBDLookup(t) ==
    /\ threads[t].pc = "getHBD"
    /\ threads' = IF IPNetString(threads[t].target) \in DOMAIN vms[threads[t].source].hbd
                  THEN [threads EXCEPT ![t].pc = "assign", ![t].ptr = "table"]
                  ELSE [threads EXCEPT ![t].pc = "store"]
    /\ UNCHANGED <<now, links, loaded, vms, kernelMaps, flowMaps, last, skb, npkts, burst,
                   locks, calc, cpus>>

\* getHBD: hbd = &handleKbpsDelay{defaults}; v.hbd[target.String()] = hbd; return hbd
\* (a goroutine that pointed to the struct the table held before keeps that struct)
getHBDStore(t) ==
    /\ threads[t].pc = "store"
    /\ LET m == threads[t].source
           key == IPNetString(threads[t].target)
           u == Other(t)
           displaced == /\ threads[u].pc # "idle"
                        /\ threads[u].ptr = "table"
                        /\ threads[u].source = m
                        /\ IPNetString(threads[u].target) = key
                        /\ key \in DOMAIN vms[m].hbd
       IN  /\ vms' = [vms EXCEPT ![m].hbd = Put(@, key, getHBD(Empty, threads[t].target))]
           /\ threads' = [threads EXCEPT
                             ![t].pc = "assign", ![t].ptr = "table",
                             ![u] = IF displaced
                                    THEN [@ EXCEPT !.ptr = "private", !.val = vms[m].hbd[key]]
                                    ELSE @]
    /\ UNCHANGED <<now, links, loaded, kernelMaps, flowMaps, last, skb, npkts, burst,
                   locks, calc, cpus>>

\* hbd.throttleRateKbps = uint32(bandwidthKbits) / hbd.delayUs = uint32(latency);
\* ips, err := parseNetToLongs(target)
assignField(t) ==
    /\ threads[t].pc = "assign"
    /\ LET m == threads[t].source
           key == IPNetString(threads[t].target)
       IN  IF threads[t].ptr = "table"
           THEN /\ vms' = [vms EXCEPT ![m].hbd[key][threads[t].field] = threads[t].value]
                /\ threads' = [threads EXCEPT ![t].pc = "put",
                                              ![t].todo = parseNetToLongs(threads[t].target)]
           ELSE /\ threads' = [threads EXCEPT ![t].pc = "put",
                                              ![t].val[threads[t].field] = threads[t].value,
                                              ![t].todo = parseNetToLongs(threads[t].target)]
                /\ UNCHANGED vms
    /\ UNCHANGED <<now, links, loaded, kernelMaps, flowMaps, last, skb, npkts, burst,
                   locks, calc, cpus>>

\* *hbd as a Put marshals it
pointee(t) ==
    IF threads[t].ptr = "table"
    THEN vms[threads[t].source].hbd[IPNetString(threads[t].target)]
    ELSE threads[t].val

\* err = v.objs.IP_HANDLE_KBPS_DELAY.Put(ip, hbd); if err != nil { return err }
putV4(t) ==
    /\ threads[t].pc = "put"
    /\ threads[t].stage = "v4"
    /\ LET k == vms[threads[t].source].objs
       IN  IF loaded[k] = "open"
           THEN /\ IP_HANDLE_KBPS_DELAY' =
                      [IP_HANDLE_KBPS_DELAY EXCEPT
                          ![k] = Put(@, KeyBytes(Head(threads[t].todo)), pointee(t))]
                /\ threads' = [threads EXCEPT ![t].stage = "v6"]
           ELSE /\ threads' = [threads EXCEPT ![t].pc = "unlock", ![t].err = TRUE]
                /\ UNCHANGED IP_HANDLE_KBPS_DELAY
    /\ UNCHANGED <<now, links, loaded, vms, IPV6_HANDLE_KBPS_DELAY, flowMaps, last, skb,
                   npkts, burst, locks, calc, cpus>>

\* err = v.objs.IPV6_HANDLE_KBPS_DELAY.Put(ipv6Net.IP, hbd); next ip, or return nil
putV6(t) ==
    /\ threads[t].pc = "put"
    /\ threads[t].stage = "v6"
    /\ LET k == vms[threads[t].source].objs
           rest == Tail(threads[t].todo)
       IN  IF loaded[k] = "open"
           THEN /\ IPV6_HANDLE_KBPS_DELAY' =
                      [IPV6_HANDLE_KBPS_DELAY EXCEPT
                          ![k] = Put(@, ipv6KeyOf(Head(threads[t].todo)), pointee(t))]
                /\ threads' = [threads EXCEPT ![t].stage = "v4", ![t].todo = rest,
                                              ![t].pc = IF rest = <<>> THEN "unlock" ELSE "put"]
           ELSE /\ threads' = [threads EXCEPT ![t].pc = "unlock", ![t].err = TRUE]
                /\ UNCHANGED IPV6_HANDLE_KBPS_DELAY
    /\ UNCHANGED <<now, links, loaded, vms, IP_HANDLE_KBPS_DELAY, flowMaps, last, skb,
                   npkts, burst, locks, calc, cpus>>

\* defer v.Unlock(), and the call returns
unlockVM(t) ==
    /\ threads[t].pc = "unlock"
    /\ locks' = [locks EXCEPT ![threads[t].source] = 0]
    /\ threads' = [threads EXCEPT ![t].pc = "done"]
    /\ UNCHANGED <<now, links, loaded, vms, kernelMaps, flowMaps, last, skb, npkts, burst,
                   calc, cpus>>

\* goroutine 1 calls SetBandwidth, goroutine 2 SetLatency, once each
ConcSetBandwidth ==
    \E t \in ConcTargets, b \in ConcBandwidths :
        beginCall(1, "SetBandwidth", PktMachine, t, b, "throttleRateKbps", uint32(b))

ConcSetLatency ==
    \E t \in ConcTargets, l \in ConcLatencies :
        beginCall(2, "SetLatency", PktMachine, t, l, "delayUs", l)

ConcStep ==
    \E t \in Threads :
        \/ lockVM(t)
        \/ getHBDLookup(t)
        \/ getHBDStore(t)
        \/ assignField(t)
        \/ putV4(t)
        \/ putV6(t)
        \/ unlockVM(t)

NextConc == PktRegister \/ ConcSetBandwidth \/ ConcSetLatency \/ ConcStep

SpecConc == Init /\ [][NextConc]_vars

\* the two updates of one machine, step by step, while Stop may run: Stop holds
\* e.Lock, which an update has released before it takes the machine's lock
NextRace == PktRegister \/ ConcSetBandwidth \/ ConcSetLatency \/ ConcStep \/ DoStop

SpecRace == Init /\ [][NextRace]_vars

(***************************************************************************)
(* Register step by step, as one goroutine runs it while updates of the    *)
(* same machine identifier run (ebpfem.go); calc holds its position        *)
(***************************************************************************)
\* the goroutine that runs Register, after those that run the updates
Registrar == Cardinality(Threads) + 1

\* a Register that puts the record into e.vms as soon as it has made it
storeAtNew == "new"

\* the step of Register at which e.vms[id] = v is executed
storeAt == "store"

\* v := &vm{...}; v.Lock(); defer v.Unlock()
regNew(id, netIf, loadOk) ==
    /\ calc = NoCalc
    /\ vms = Empty
    /\ Len(loaded) < MaxObjs
    /\ calc' = [fn |-> "Register", pc |-> "load", id |-> id, netIf |-> netIf,
                loadOk |-> loadOk, objs |-> Len(loaded) + 1, err |-> FALSE]
    /\ locks' = [locks EXCEPT ![id] = Registrar]
    /\ vms' = IF storeAt = "new"
              THEN (id :> [netIf |-> netIf, objs |-> Len(loaded) + 1, hbd |-> Empty]) @@ vms
              ELSE vms
    /\ UNCHANGED <<now, links, loaded, kernelMaps, flowMaps, last, skb, npkts, burst,
                   threads, cpus>>

\* loadEdtObjects(v.objs, nil); progFd := v.objs.edtPrograms.TcMain.FD()
regLoad ==
    /\ calc.fn = "Register"
    /\ calc.pc = "load"
    /\ IF calc.loadOk
       THEN /\ loaded' = Append(loaded, "open")
            /\ IP_HANDLE_KBPS_DELAY' = Append(IP_HANDLE_KBPS_DELAY, Empty)
            /\ IPV6_HANDLE_KBPS_DELAY' = Append(IPV6_HANDLE_KBPS_DELAY, Empty)
            /\ ipv4_flow_map' = Append(ipv4_flow_map, Empty)
            /\ ipv6_flow_map' = Append(ipv6_flow_map, Empty)
            /\ calc' = [calc EXCEPT !.pc = "iface"]
       ELSE /\ calc' = [calc EXCEPT !.pc = "return", !.err = TRUE]
            /\ UNCHANGED <<loaded, kernelMaps, flowMaps>>
    /\ UNCHANGED <<now, links, vms, last, skb, npkts, burst, threads, locks, cpus>>

\* iface, err := getIface(v.netIf)
regIface ==
    /\ calc.fn = "Register"
    /\ calc.pc = "iface"
    /\ calc' = IF calc.netIf \in DOMAIN qdiscs
               THEN [calc EXCEPT !.pc = "clsact"]
               ELSE [calc EXCEPT !.pc = "return", !.err = TRUE]
    /\ UNCHANGED <<now, links, loaded, vms, kernelMaps, flowMaps, last, skb, npkts, burst,
                   threads, locks, cpus>>

\* createClsactQdisc(iface), then createFQdisc(iface)
regQdisc(kind, then) ==
    /\ calc.fn = "Register"
    /\ calc.pc = kind
    /\ IF qdiscAdd(calc.netIf, kind)
       THEN /\ qdiscs' = [qdiscs EXCEPT ![calc.netIf] = @ \cup {kind}]
            /\ calc' = [calc EXCEPT !.pc = then]
       ELSE /\ calc' = [calc EXCEPT !.pc = "return", !.err = TRUE]
            /\ UNCHANGED qdiscs
    /\ UNCHANGED <<now, filters, loaded, vms, kernelMaps, flowMaps, last, skb, npkts, burst,
                   threads, locks, cpus>>

\* createTCBpfFilter(iface, progFd, netlink.HANDLE_MIN_EGRESS, "edt_bandwidth")
regFilter ==
    /\ calc.fn = "Register"
    /\ calc.pc = "filter"
    /\ IF filters[calc.netIf] = 0
       THEN /\ filters' = [filters EXCEPT ![calc.netIf] = calc.objs]
            /\ calc' = [calc EXCEPT !.pc = "store"]
       ELSE /\ calc' = [calc EXCEPT !.pc = "return", !.err = TRUE]
            /\ UNCHANGED filters
    /\ UNCHANGED <<now, qdiscs, loaded, vms, kernelMaps, flowMaps, last, skb, npkts, burst,
                   threads, locks, cpus>>

\* e.Lock(); e.vms[id] = v; e.Unlock()
regStore ==
    /\ calc.fn = "Register"
    /\ calc.pc = "store"
    /\ vms' = IF storeAt = "store"
              THEN (calc.id :> [netIf |-> calc.netIf, objs |-> calc.objs, hbd |-> Empty]) @@ vms
              ELSE vms
    /\ calc' = [calc EXCEPT !.pc = "return"]
    /\ UNCHANGED <<now, links, loaded, kernelMaps, flowMaps, last, skb, npkts, burst,
                   threads, locks, cpus>>

\* return, and the deferred v.Unlock()
regReturn ==
    /\ calc.fn = "Register"
    /\ calc.pc = "return"
    /\ locks' = [locks EXCEPT ![calc.id] = 0]
    /\ calc' = [calc EXCEPT !.pc = "done"]
    /\ last' = [op |-> "Register", id |-> calc.id, netIf |-> calc.netIf, err |-> calc.err]
    /\ UNCHANGED <<now, links, loaded, vms, kernelMaps, flowMaps, skb, npkts, burst,
                   threads, cpus>>

VisRegister == \E netIf \in NetIfNames, loadOk \in BOOLEAN : regNew(PktMachine, netIf, loadOk)

RegStep ==
    \/ regLoad
    \/ regIface
    \/ regQdisc("clsact", "fq")
    \/ regQdisc("fq", "filter")
    \/ regFilter
    \/ regStore
    \/ regReturn

NextVis == VisRegister \/ RegStep \/ ConcSetBandwidth \/ ConcSetLatency \/ ConcStep

SpecVis == Init /\ [][NextVis]_vars

(***************************************************************************)
(* tc_main step by step, as two CPUs run it on packets of one interface    *)
(* (net.c): no lock and no atomic operation covers the flow maps           *)
(***************************************************************************)
CpuBandwidths == {W64(4)}

\* TCP segments of the shaped guest, either family
CpuPackets ==
    {Packet(eth, "IPPROTO_TCP", PktTarget.ip, <<10, 0, 0, 9>>, len, ts) :
        eth \in {"ETH_P_IP", "ETH_P_IPV6"}, len \in Lens, ts \in {TsZero, <<0, 1000>>}}

Busy(c) == cpus[c].pc \in {"looked", "computed"}

\* tc_main up to last_tstamp = bpf_map_lookup_elem(&ipv4_flow_map, &key), for a
\* packet that has a shaping entry
cpuEnter(c, dev, p) ==
    /\ cpus[c].pc = "idle"
    /\ filters[dev] # 0
    /\ LET k == filters[dev]
           v4 == p.eth = "ETH_P_IP"
           table == IF v4 THEN IP_HANDLE_KBPS_DELAY[k] ELSE IPV6_HANDLE_KBPS_DELAY[k]
           flow == IF v4 THEN ipv4_flow_map[k] ELSE ipv6_flow_map[k]
           ip_address == lookupAddress(p)
           had == ip_address \in DOMAIN flow
       IN  /\ Shaped(p)
           /\ ip_address \in DOMAIN table
           /\ cpus' = [cpus EXCEPT ![c] =
                          [pc |-> "looked", objs |-> k, p |-> p, key |-> ip_address,
                           entry |-> table[ip_address], had |-> had,
                           lastTs |-> IF had THEN flow[ip_address] ELSE TsZero,
                           overlap |-> \E o \in Cpus \ {c} : Busy(o)]]
    /\ UNCHANGED <<now, links, loaded, vms, kernelMaps, flowMaps, last, skb, npkts, burst,
                   threads, locks, calc>>

\* now = bpf_ktime_get_ns(); next_tstamp = *last_tstamp + delay_ns; the tests up
\* to the bpf_map_update_elem.  last_tstamp points into the map without a lock:
\* it yields the value found by the lookup or the one another CPU has stored since
cpuCompute(c, fresh) ==
    /\ cpus[c].pc = "looked"
    /\ LET me == cpus[c]
           v4 == me.p.eth = "ETH_P_IP"
           flow == IF v4 THEN ipv4_flow_map[me.objs] ELSE ipv6_flow_map[me.objs]
           read == IF fresh THEN flow[me.key] ELSE me.lastTs
           view == IF me.had THEN Put(Empty, me.key, read) ELSE Empty
           r == IF v4
                THEN throttle_flow_ipv4(view, me.key, me.p.len, me.p.tstamp,
                                        me.entry.throttleRateKbps, now)
                ELSE throttle_flow_ipv6(view, me.key, me.p.len, me.p.tstamp,
                                        me.entry.throttleRateKbps, now)
       IN  /\ fresh => me.had /\ flow[me.key] # me.lastTs
           /\ cpus' = [cpus EXCEPT ![c] =
                          [pc |-> "computed", objs |-> me.objs, p |-> me.p, key |-> me.key,
                           entry |-> me.entry, had |-> me.had, lastTs |-> read,
                           overlap |-> me.overlap, clock |-> now, ret |-> r.ret,
                           tstamp |-> r.tstamp, wrote |-> r.wrote,
                           slot |-> IF r.wrote THEN r.flow[me.key] ELSE TsZero]]
    /\ UNCHANGED <<now, links, loaded, vms, kernelMaps, flowMaps, last, skb, npkts, burst,
                   threads, locks, calc>>

\* bpf_map_update_elem(&ipv4_flow_map, &key, ...), skb->tstamp = next_tstamp,
\* inject_delay, return
cpuUpdate(c) ==
    /\ cpus[c].pc = "computed"
    /\ LET me == cpus[c]
           v4 == me.p.eth = "ETH_P_IP"
           flow == IF v4 THEN ipv4_flow_map[me.objs] ELSE ipv6_flow_map[me.objs]
           stored == IF me.wrote THEN Put(flow, me.key, me.slot) ELSE flow
       IN  /\ IF v4
              THEN /\ ipv4_flow_map' = [ipv4_flow_map EXCEPT ![me.objs] = stored]
                   /\ UNCHANGED ipv6_flow_map
              ELSE /\ ipv6_flow_map' = [ipv6_flow_map EXCEPT ![me.objs] = stored]
                   /\ UNCHANGED ipv4_flow_map
           /\ cpus' = [cpus EXCEPT ![c] =
                          [me EXCEPT !.pc = "done",
                                     !.tstamp = IF me.ret = TC_ACT_OK
                                                THEN inject_delay(me.tstamp, me.entry.delayUs, now)
                                                ELSE me.tstamp,
                                     !.lastTs = IF me.key \in DOMAIN flow THEN flow[me.key]
                                                ELSE TsZero]]
    /\ UNCHANGED <<now, links, loaded, vms, kernelMaps, last, skb, npkts, burst,
                   threads, locks, calc>>

CpuSetBandwidth == \E b \in CpuBandwidths : SetBandwidth(PktMachine, PktTarget, b)

\* packets handled one at a time before the two CPUs meet
CpuWarm ==
    /\ \A c \in Cpus : cpus[c].pc = "idle"
    /\ \E dev \in ExistingIfs, p \in CpuPackets : tc_main(dev, p, TsZero)

CpuStep ==
    \E c \in Cpus :
        \/ \E dev \in ExistingIfs, p \in CpuPackets : cpuEnter(c, dev, p)
        \/ \E fresh \in BOOLEAN : cpuCompute(c, fresh)
        \/ cpuUpdate(c)

NextCpu == PktRegister \/ CpuSetBandwidth \/ CpuWarm \/ Tick \/ CpuStep

SpecCpu == Init /\ [][NextCpu]_vars

(***************************************************************************)
(* parseNetToLongs step by step, on subnets of both families (utils.go).   *)
(* A net.IP is a slice: an element of the result is either a uint32 value  *)
(* or a reference to the buffer of startIP or of endIP.                    *)
(***************************************************************************)
\* the 16 bytes of an address given by its 8 groups, and back
To16(groups) ==
    [i \in 1..16 |-> IF i % 2 = 1 THEN groups[(i + 1) \div 2] \div 256
                     ELSE groups[i \div 2] % 256]

GroupsOf(bytes) == [g \in 1..8 |-> bytes[2 * g - 1] * 256 + bytes[2 * g]]

\* generateIPv6: the net.IPNet it returns, Mask: net.CIDRMask(126, 128)
generateIPv6Net(ipv4Addr) == [ip |-> To16(generateIPv6(ipv4Addr)), bits |-> 126]

EnumHostBits == (0..2) \cup {MaxEnumBits}

EnumTargets4 ==
    {[ip |-> a, bits |-> 32 - h] : a \in {<<10, 0, 0, 10>>, <<10, 0, 1, 255>>},
                                   h \in EnumHostBits}

EnumTargets6 ==
    {[ip |-> To16(add_ipv6(a)), bits |-> 128 - h] :
        a \in {<<10, 0, 0, 10>>, <<10, 0, 1, 255>>}, h \in EnumHostBits}
    \cup {generateIPv6Net(IPv4String(S.ip[1], S.ip[2], S.ip[3], S.ip[4])) : S \in EnumTargets4}

EnumTargets == EnumTargets4 \cup EnumTargets6

InitEnum ==
    /\ InitEngine
    /\ calc \in {[fn |-> "parseNetToLongs", pc |-> "start", target |-> t, ip |-> <<>>,
                  endIP |-> <<>>, longs |-> <<>>] : t \in EnumTargets}

\* l, err := parseIPToLong(ip) as parseNetToLongs appends it: the uint32 for an
\* IPv4 address, ip.To16() (the slice itself) for an IPv6 address
longOf(ip, buffer) ==
    IF Len(ip) = 4 THEN [val |-> parseIPToLong(ip)] ELSE [ref |-> buffer]

\* startIP := target.IP.Mask(target.Mask); endIP := copy of startIP, |= ^Mask
enumStart ==
    /\ calc.fn = "parseNetToLongs"
    /\ calc.pc = "start"
    /\ LET startIP == MaskIP(calc.target.ip, calc.target.bits)
       IN  calc' = [calc EXCEPT !.pc = "loop", !.ip = startIP,
                                !.endIP = LastIP(startIP, calc.target.bits)]
    /\ UNCHANGED <<now, links, loaded, vms, kernelMaps, flowMaps, last, skb, npkts, burst,
                   threads, locks, cpus>>

\* for ip := startIP; !ip.Equal(endIP); incrementIP(ip) { longs = append(longs, l) }
enumLoop ==
    /\ calc.fn = "parseNetToLongs"
    /\ calc.pc = "loop"
    /\ calc.ip # calc.endIP
    /\ calc' = [calc EXCEPT !.longs = Append(@, longOf(calc.ip, "startIP")),
                            !.ip = incrementIP(calc.ip)]
    /\ UNCHANGED <<now, links, loaded, vms, kernelMaps, flowMaps, last, skb, npkts, burst,
                   threads, locks, cpus>>

\* l, err := parseIPToLong(endIP); longs = append(longs, l); return longs, nil
enumReturn ==
    /\ calc.fn = "parseNetToLongs"
    /\ calc.pc = "loop"
    /\ calc.ip = calc.endIP
    /\ calc' = [calc EXCEPT !.pc = "done", !.longs = Append(@, longOf(calc.endIP, "endIP"))]
    /\ UNCHANGED <<now, links, loaded, vms, kernelMaps, flowMaps, last, skb, npkts, burst,
                   threads, locks, cpus>>

\* the address an element of the result denotes to the caller
addressOf(l) ==
    IF "val" \in DOMAIN l THEN KeyBytes(l.val)
    ELSE IF l.ref = "startIP" THEN calc.ip
    ELSE calc.endIP

NextEnum == enumStart \/ enumLoop \/ enumReturn

SpecEnum == InitEnum /\ [][NextEnum]_vars

\* address derivation on its own: one address, or the address of one node
\* identifier, is mapped by the host (generateIPv6) and by the guest (add_ipv6.sh)
MaxNodeId == 253
NodeIds == 0..MaxNodeId

\* the four-octet mesh address of a node identifier: last octet 2 + n
meshIPv4(n) == <<10, 0, 0, 2 + n>>

Octets == {0, 1, 10, 16, 17, 255}
AddrInputs == {<<10, o2, o3, o4>> : o2 \in {0, 1}, o3 \in Octets, o4 \in Octets}

InitAddr ==
    /\ InitEngine
    /\ calc \in {[fn |-> "generateIPv6", pc |-> "start", node |-> -1, ip |-> a,
                   host |-> <<>>, guest |-> <<>>] : a \in AddrInputs}
               \cup {[fn |-> "generateIPv6", pc |-> "start", node |-> n, ip |-> meshIPv4(n),
                      host |-> <<>>, guest |-> <<>>] : n \in NodeIds}

\* ipv6Net, err := generateIPv6(ipv4Addr) on the host; sh add_ipv6.sh on the guest
deriveAddresses ==
    /\ calc.fn = "generateIPv6"
    /\ calc.pc = "start"
    /\ calc' = [calc EXCEPT
                   !.pc = "done",
                   !.host = generateIPv6(IPv4String(calc.ip[1], calc.ip[2], calc.ip[3],
                                                    calc.ip[4])),
                   !.guest = add_ipv6(calc.ip)]
    /\ UNCHANGED <<now, links, loaded, vms, kernelMaps, flowMaps, last, skb, npkts, burst,
                   threads, locks, cpus>>

NextAddr == deriveAddresses

SpecAddr == InitAddr /\ [][NextAddr]_vars

(***************************************************************************)
(* Peering manager: Route on the peers that InitPeering installed.  calc   *)
(* holds the manager: its peers, the list the mesh tool was given for each *)
(* peer, the kernel routes, and how often each Route call went through     *)
(***************************************************************************)
\* Route calls that go through, per subnet and peer
MaxCalls == 2

RemoteHosts == {1, 2}
RouteHosts == RemoteHosts \cup {3}
RouteNets == {[ip |-> <<10, 0, 1, 0>>, bits |-> 30], [ip |-> <<10, 0, 17, 0>>, bits |-> 30]}

\* the subnet in the other address family: the mapped address, as many addresses
mirrorNet(subnet) ==
    [ip |-> generateIPv6(IPv4String(subnet.ip[1], subnet.ip[2], subnet.ip[3], subnet.ip[4])),
     bits |-> 96 + subnet.bits]

\* a peer's own /32 and /128
ownNets(host) == <<[ip |-> meshIPv4(host), bits |-> 32], mirrorNet([ip |-> meshIPv4(host), bits |-> 32])>>

\* the peer's accumulated subnets, each followed by its mirror
RECURSIVE bothFamilies(_)
bothFamilies(nets) ==
    IF nets = <<>> THEN <<>>
    ELSE <<Head(nets), mirrorNet(Head(nets))>> \o bothFamilies(Tail(nets))

\* the complete allowed-addresses list of a peer
allowedList(host, nets) == ownNets(host) \o bothFamilies(nets)

Occurrences(seq, x) == Cardinality({i \in 1..Len(seq) : seq[i] = x})

\* an allowed-subnet collection that takes the subnet once more
addSubnetAgain(nets, subnet) == Append(nets, subnet)

\* the allowed-subnet set of a peer, with one more subnet
addSubnet(nets, subnet) ==
    IF Occurrences(nets, subnet) > 0 THEN nets ELSE Append(nets, subnet)

NoCalls == [c \in RouteNets \X RouteHosts |-> 0]

InitPeer ==
    /\ InitEngine
    /\ calc = [fn |-> "peering", peers |-> <<>>, pushed |-> <<>>, routes |-> <<>>,
               calls |-> NoCalls, err |-> FALSE]

\* InitPeering, all probes answered: every remote host becomes a peer allowed
\* its own /32 and /128
InitPeering ==
    /\ calc.fn = "peering"
    /\ calc.peers = <<>>
    /\ calc' = [calc EXCEPT !.peers = [h \in RemoteHosts |-> <<>>],
                            !.pushed = [h \in RemoteHosts |-> ownNets(h)],
                            !.err = FALSE]
    /\ UNCHANGED <<now, links, loaded, vms, kernelMaps, flowMaps, last, skb, npkts, burst,
                   threads, locks, cpus>>

\* Route(subnet, host)
Route(subnet, host) ==
    /\ calc.fn = "peering"
    /\ calc.calls[<<subnet, host>>] < MaxCalls
    /\ IF host \notin DOMAIN calc.peers
       THEN calc' = [calc EXCEPT !.err = TRUE]
       ELSE LET nets == addSubnet(calc.peers[host], subnet)
            IN  calc' = [calc EXCEPT
                            !.peers[host] = nets,
                            !.pushed[host] = allowedList(host, nets),
                            !.routes = (subnet :> host) @@ (mirrorNet(subnet) :> host) @@ @,
                            !.calls[<<subnet, host>>] = @ + 1,
                            !.err = FALSE]
    /\ UNCHANGED <<now, links, loaded, vms, kernelMaps, flowMaps, last, skb, npkts, burst,
                   threads, locks, cpus>>

DoRoute == \E subnet \in RouteNets, host \in RouteHosts : Route(subnet, host)

NextPeer == InitPeering \/ DoRoute

SpecPeer == InitPeer /\ [][NextPeer]_vars

(***************************************************************************)
(* Properties of the control plane (checked under Spec)                    *)
(***************************************************************************)
\* the addresses of subnet S = a.b.c.d/p (p >= 24), from the definition of a
\* subnet: the addresses that agree with a.b.c.d on the first p bits
SubnetAddrs(S) ==
    {a \in {<<S.ip[1], S.ip[2], S.ip[3], x>> : x \in 0..255} :
        a[4] \div Pow2(32 - S.bits) = S.ip[4] \div Pow2(32 - S.bits)}

\* the IPv6 keys the engine derives for the addresses of S
MirrorKeys(S) == {ipv6KeyOf(parseIPToLong(a)) : a \in SubnetAddrs(S)}

CallOk(op) == last.op = op /\ ~last.err

\* every address of S holds entry e in the IPv4 map k, every mirror key in the IPv6 map k
AllHold(k, S, e) ==
    /\ \A a \in SubnetAddrs(S) :
          a \in DOMAIN IP_HANDLE_KBPS_DELAY[k] /\ IP_HANDLE_KBPS_DELAY[k][a] = e
    /\ \A a6 \in MirrorKeys(S) :
          a6 \in DOMAIN IPV6_HANDLE_KBPS_DELAY[k] /\ IPV6_HANDLE_KBPS_DELAY[k][a6] = e

\* C2: after a successful SetBandwidth(m, S, r) with S = a.b.c.d/p, every one of
\* the 2^(32-p) addresses of S, network and broadcast address included, has an
\* entry in the IPv4 shaping map with throttleRateKbps = r, and the IPv6 shaping
\* map holds as many mirrored entries, each with throttleRateKbps = r
C2_SetBandwidthCoversSubnet ==
    CallOk("SetBandwidth") =>
        LET k == vms[last.id].objs
            S == last.target
        IN  /\ Cardinality(SubnetAddrs(S)) = Pow2(32 - S.bits)
            /\ \A a \in SubnetAddrs(S) :
                  /\ a \in DOMAIN IP_HANDLE_KBPS_DELAY[k]
                  /\ W64(IP_HANDLE_KBPS_DELAY[k][a].throttleRateKbps) = last.arg
            /\ Cardinality(MirrorKeys(S)) = Pow2(32 - S.bits)
            /\ \A a6 \in MirrorKeys(S) :
                  /\ a6 \in DOMAIN IPV6_HANDLE_KBPS_DELAY[k]
                  /\ W64(IPV6_HANDLE_KBPS_DELAY[k][a6].throttleRateKbps) = last.arg

\* a /30 has just been given 1000 kbit/s: four IPv4 and four IPv6 entries hold it
C2_Witness ==
    /\ CallOk("SetBandwidth")
    /\ last.target.bits = 30
    /\ last.arg = W64(1000)
    /\ Cardinality({a \in DOMAIN IP_HANDLE_KBPS_DELAY[vms[last.id].objs] :
          IP_HANDLE_KBPS_DELAY[vms[last.id].objs][a].throttleRateKbps = 1000}) = 4
    /\ Cardinality({a \in DOMAIN IPV6_HANDLE_KBPS_DELAY[vms[last.id].objs] :
          IPV6_HANDLE_KBPS_DELAY[vms[last.id].objs][a].throttleRateKbps = 1000}) = 4

\* C3: for every IPv4 address a.b.c.d that SetBandwidth or SetLatency enumerates,
\* the key written into the IPv6 shaping map is fd00::a:b:c:d, the address the
\* guest script add_ipv6.sh gives the guest whose IPv4 address is a.b.c.d
C3_MirrorKeyIsGuestAddress ==
    (CallOk("SetBandwidth") \/ CallOk("SetLatency")) =>
        \A a \in SubnetAddrs(last.target) :
            /\ add_ipv6(a) \in DOMAIN IPV6_HANDLE_KBPS_DELAY[vms[last.id].objs]
            /\ IPV6_HANDLE_KBPS_DELAY[vms[last.id].objs][add_ipv6(a)] =
                   IP_HANDLE_KBPS_DELAY[vms[last.id].objs][a]

\* the entry a machine's bookkeeping holds for target t once both fields are set
BothSet(t, b, l) == [throttleRateKbps |-> b.lo, delayUs |-> l]

\* C10: SetBandwidth(m, d, r) changes only the rate of the entry of (m, d) and
\* SetLatency(m, d, l) only its delay, and each writes the whole entry: after
\* both calls, in either order, every address of d holds (rate r, delay l) in
\* both kernel maps
C10_BandwidthAndLatencyCommute ==
    [][\A m \in Machines, t \in Targets, b \in Bandwidths, l \in Latencies :
          /\ (m \in DOMAIN vms /\ SetBandwidth(m, t, b)) =>
                /\ vms'[m].hbd[IPNetString(t)] =
                      [getHBD(vms[m].hbd, t) EXCEPT !.throttleRateKbps = b.lo]
                /\ \A o \in DOMAIN vms[m].hbd \ {IPNetString(t)} :
                      vms'[m].hbd[o] = vms[m].hbd[o]
                /\ (CallOk("SetLatency") /\ last.id = m /\ last.target = t /\ last.arg = l) =>
                      AllHold(vms[m].objs, t, BothSet(t, b, l))'
          /\ (m \in DOMAIN vms /\ SetLatency(m, t, l)) =>
                /\ vms'[m].hbd[IPNetString(t)] = [getHBD(vms[m].hbd, t) EXCEPT !.delayUs = l]
                /\ \A o \in DOMAIN vms[m].hbd \ {IPNetString(t)} :
                      vms'[m].hbd[o] = vms[m].hbd[o]
                /\ (CallOk("SetBandwidth") /\ last.id = m /\ last.target = t /\ last.arg = b) =>
                      AllHold(vms[m].objs, t, BothSet(t, b, l))']_vars

\* SetLatency has just followed SetBandwidth on the same /30 of the same machine:
\* its four addresses hold (1000 kbit/s, 1000 us) in both maps
C10_Witness ==
    /\ CallOk("SetLatency")
    /\ last.target.bits = 30
    /\ IPNetString(last.target) \in DOMAIN vms[last.id].hbd
    /\ vms[last.id].hbd[IPNetString(last.target)] = BothSet(last.target, W64(1000), 1000)
    /\ AllHold(vms[last.id].objs, last.target, BothSet(last.target, W64(1000), 1000))

\* C11: SetBandwidth and SetLatency called for a machine that was never
\* registered return an error and change nothing: no entry is created in any
\* machine's table and no kernel map of any machine is written
C11_UnregisteredChangesNothing ==
    [][\A m \in Machines, t \in Targets, b \in Bandwidths, l \in Latencies :
          (m \notin DOMAIN vms /\ (SetBandwidth(m, t, b) \/ SetLatency(m, t, l))) =>
              /\ last'.err
              /\ UNCHANGED <<vms, kernelMaps, flowMaps, loaded, links>>]_vars

\* an update for an unknown machine has just failed while another machine is
\* registered and has entries in its kernel maps
C11_Witness ==
    /\ last.op \in {"SetBandwidth", "SetLatency"}
    /\ last.err
    /\ last.id \notin DOMAIN vms
    /\ \E m \in DOMAIN vms :
          /\ vms[m].hbd # Empty
          /\ IP_HANDLE_KBPS_DELAY[vms[m].objs] # Empty

\* the subnet a key of a machine's table stands for
SubnetOfKey(key) == [ip |-> key[1], bits |-> key[2]]

\* the keys of table hbd whose subnet contains address a
Covering(hbd, a) == {key \in DOMAIN hbd : a \in SubnetAddrs(SubnetOfKey(key))}

\* machines all of whose SetBandwidth / SetLatency calls have succeeded so far:
\* a call fails only once the machine's objects are closed, and they stay closed
AllCallsSucceeded(m) == loaded[vms[m].objs] = "open"

\* C12 (as amended): in every state reached by successful SetBandwidth and
\* SetLatency calls on machine m, for every subnet d of m's table and every
\* address a of d, the IPv4 map entry for a and the IPv6 map entry for the
\* mirrored address are equal and are m's entry for a subnet of the table that
\* contains a; they are m's entry for d whenever d is the only such subnet, and
\* right after a successful call for d
C12_MapsMirrorCoveringEntry ==
    \A m \in DOMAIN vms :
        AllCallsSucceeded(m) =>
            LET k == vms[m].objs
                hbd == vms[m].hbd
            IN  /\ \A key \in DOMAIN hbd : \A a \in SubnetAddrs(SubnetOfKey(key)) :
                      LET a6 == ipv6KeyOf(parseIPToLong(a))
                      IN  /\ a \in DOMAIN IP_HANDLE_KBPS_DELAY[k]
                          /\ a6 \in DOMAIN IPV6_HANDLE_KBPS_DELAY[k]
                          /\ IPV6_HANDLE_KBPS_DELAY[k][a6] = IP_HANDLE_KBPS_DELAY[k][a]
                          /\ IP_HANDLE_KBPS_DELAY[k][a] \in
                                {hbd[c] : c \in Covering(hbd, a)}
                          /\ Covering(hbd, a) = {key} =>
                                IP_HANDLE_KBPS_DELAY[k][a] = hbd[key]
                /\ ((CallOk("SetBandwidth") \/ CallOk("SetLatency")) /\ last.id = m) =>
                      AllHold(k, last.target, hbd[IPNetString(last.target)])

\* a machine's table holds two different entries for nested subnets: an address
\* of the outer subnet alone holds the outer entry, an address of both holds
\* the inner entry
C12_Witness ==
    \E m \in DOMAIN vms :
        /\ AllCallsSucceeded(m)
        /\ \E inner, outer \in DOMAIN vms[m].hbd :
              /\ inner[2] > outer[2]
              /\ vms[m].hbd[inner] # vms[m].hbd[outer]
              /\ \E a \in SubnetAddrs(SubnetOfKey(outer)) \ SubnetAddrs(SubnetOfKey(inner)) :
                    IP_HANDLE_KBPS_DELAY[vms[m].objs][a] = vms[m].hbd[outer]
              /\ \E a \in SubnetAddrs(SubnetOfKey(inner)) :
                    IP_HANDLE_KBPS_DELAY[vms[m].objs][a] = vms[m].hbd[inner]

\* C12 (as stated): in every state reached by successful SetBandwidth and
\* SetLatency calls on machine m, overlapping subnets included, for every subnet
\* d of m's table and every address a of d both kernel map entries equal m's
\* entry for d
C12_MapsMirrorTable ==
    \A m \in DOMAIN vms :
        AllCallsSucceeded(m) =>
            \A key \in DOMAIN vms[m].hbd :
                AllHold(vms[m].objs, SubnetOfKey(key), vms[m].hbd[key])

\* a registered machine whose objects Stop has closed
Stopped(m) == m \in DOMAIN vms /\ loaded[vms[m].objs] = "closed"

\* C21: Stop destroys the machine records: once Stop has returned no record is
\* left of a machine whose objects it closed, and SetBandwidth or SetLatency
\* for such a machine fail as for an unregistered one, changing neither the
\* machine tables nor a kernel map
C21_StopDestroysRecords ==
    [][/\ last'.op = "Stop" => \A m \in DOMAIN vms' : loaded'[vms'[m].objs] # "closed"
       /\ \A m \in Machines, t \in Targets, b \in Bandwidths, l \in Latencies :
             (Stopped(m) /\ (SetBandwidth(m, t, b) \/ SetLatency(m, t, l))) =>
                 /\ last'.err
                 /\ UNCHANGED <<vms, kernelMaps>>]_vars

\* the interface is missing or already carries one of the two disciplines
Encumbered(netIf) ==
    \/ netIf \notin DOMAIN qdiscs
    \/ "clsact" \in qdiscs[netIf]
    \/ "fq" \in qdiscs[netIf]

\* C22: Register on an interface that does not exist or that already carries
\* the clsact or the fq discipline returns an error and leaves the machine
\* table as it was: id is neither added nor replaced (checked under SpecReg)
C22_RegisterFailsOnEncumberedInterface ==
    [][\A id \in Machines, netIf \in StopIfs \cup NetIfNames, loadOk \in BOOLEAN :
          (Encumbered(netIf) /\ Register(id, netIf, loadOk)) =>
              /\ last'.err
              /\ vms' = vms]_vars

\* a Register of a registered machine on the other interface, which carried
\* the fq discipline before the engine started, has just failed and the
\* earlier registration is still in the table
C22_Witness ==
    /\ last.op = "Register"
    /\ last.err
    /\ last.id \in DOMAIN vms
    /\ vms[last.id].netIf # last.netIf
    /\ last.netIf \in DOMAIN qdiscs
    /\ qdiscs[last.netIf] = {"clsact", "fq"}
    /\ filters[last.netIf] = 0
    /\ loaded[vms[last.id].objs] = "open"

Owned(k) == \E m \in DOMAIN vms : vms[m].objs = k

\* C27: kernel resources never leak: every object set that is loaded and not
\* yet closed belongs to a machine record of e.vms, which Stop ranges over, and
\* every interface that carries a discipline or the filter is the interface of
\* a machine record; so a Register that fails leaves nothing loaded or
\* attached, and a second Register of an identifier orphans nothing
C27_NoResourceLeak ==
    /\ \A k \in 1..Len(loaded) : loaded[k] = "open" => Owned(k)
    /\ \A i \in DOMAIN qdiscs :
          (qdiscs[i] # {} \/ filters[i] # 0) => \E m \in DOMAIN vms : vms[m].netIf = i

(***************************************************************************)
(* Properties of concurrent updates (checked under SpecConc)               *)
(***************************************************************************)
Returned(t) == threads[t].pc = "done" /\ ~threads[t].err

InCriticalSection(t) ==
    threads[t].pc \in {"getHBD", "store", "assign", "put", "unlock"}

\* C13: SetBandwidth(m, d, r) and SetLatency(m, d, l) running concurrently on
\* the same registered machine and subnet serialize on the machine's lock: at
\* most one of them is past v.Lock() at a time, and once both have returned
\* successfully every address of d holds (rate r, delay l) in both kernel maps
C13_ConcurrentUpdatesBothLand ==
    /\ ~(InCriticalSection(1) /\ InCriticalSection(2))
    /\ (Returned(1) /\ Returned(2) /\ threads[1].source = threads[2].source
           /\ threads[1].target = threads[2].target) =>
          AllHold(vms[threads[1].source].objs, threads[1].target,
                  BothSet(threads[1].target, threads[1].arg, threads[2].arg))

\* both calls have returned successfully on the same /30, one of them having
\* started while the other was under way, and the four addresses hold (r, l)
C13_Witness ==
    /\ Returned(1)
    /\ Returned(2)
    /\ threads[1].target = threads[2].target
    /\ threads[1].target.bits = 30
    /\ threads[1].overlap \/ threads[2].overlap
    /\ AllHold(vms[threads[1].source].objs, threads[1].target,
               BothSet(threads[1].target, threads[1].arg, threads[2].arg))

\* the update of goroutine t found its machine and returned an error
Failed(t) ==
    threads[t].pc = "done" /\ threads[t].err /\ threads[t].source \in DOMAIN vms

\* C28: when SetBandwidth or SetLatency on a registered machine has returned
\* an error, and no other update is under way, the machine's ShapingEntry of
\* the subnet is the entry of every address of the subnet in both kernel maps
C28_ErrorLeavesViewAndMapsAgreed ==
    \A t \in Threads :
        (Failed(t) /\ ~Running(Other(t))) =>
            LET v == vms[threads[t].source]
                key == IPNetString(threads[t].target)
            IN  key \in DOMAIN v.hbd => AllHold(v.objs, threads[t].target, v.hbd[key])

\* C29: with Stop running concurrently, an update never attempts a write to a
\* kernel map that Stop has closed: every Put finds the machine's objects open
C29_NoWriteToClosedMap ==
    [][\A t \in Threads :
          (putV4(t) \/ putV6(t)) => loaded[vms[threads[t].source].objs] = "open"]_vars

\* the record of machine m has its kernel objects loaded and its interface
\* carries both disciplines and the filter of its program
Complete(m) ==
    LET v == vms[m]
    IN  /\ v.objs \in 1..Len(loaded)
        /\ loaded[v.objs] = "open"
        /\ v.netIf \in DOMAIN qdiscs
        /\ {"clsact", "fq"} \subseteq qdiscs[v.netIf]
        /\ filters[v.netIf] = v.objs

\* the update of goroutine t returned the error of an unregistered machine
FailedUnregistered(t) ==
    threads[t].pc = "done" /\ threads[t].err /\ threads[t].ptr = "none"

\* C30: an update that runs while Register(id, ...) runs either fails as
\* unregistered, or has found a record whose kernel objects are loaded and
\* whose interface carries both disciplines and the egress filter; and it
\* writes only once Register has returned and released the record's lock
C30_VisibleOnlyWhenComplete ==
    \A t \in Threads :
        threads[t].pc # "idle" =>
            \/ FailedUnregistered(t)
            \/ /\ ~threads[t].err
               /\ threads[t].source \in DOMAIN vms
               /\ Complete(threads[t].source)
               /\ InCriticalSection(t) => calc.pc = "done"

\* Register has returned; SetBandwidth, called before the record was stored,
\* failed as unregistered, and SetLatency, called later, has written its
\* entry to the loaded maps
C30_Witness ==
    /\ calc.fn = "Register"
    /\ calc.pc = "done"
    /\ FailedUnregistered(1)
    /\ Returned(2)
    /\ Complete(threads[2].source)
    /\ AllHold(vms[threads[2].source].objs, threads[2].target,
               vms[threads[2].source].hbd[IPNetString(threads[2].target)])

(***************************************************************************)
(* Properties of subnet enumeration (checked under SpecEnum)               *)
(***************************************************************************)
Enumerated == calc.fn = "parseNetToLongs" /\ calc.pc = "done"

HostBits(target) == 8 * Len(target.ip) - target.bits

\* address number k of the subnet of target, counted from its network address:
\* arithmetic on the number held by the last two bytes (host bits <= 16)
NthAddress(target, k) ==
    LET n == Len(target.ip)
        low == target.ip[n - 1] * 256 + target.ip[n]
        network == (low \div Pow2(HostBits(target))) * Pow2(HostBits(target))
    IN  [target.ip EXCEPT ![n - 1] = (network + k) \div 256, ![n] = (network + k) % 256]

\* C16: for both families the enumeration of a subnet with h host bits
\* terminates and returns 2^h elements, element k denoting address number k
\* of the subnet counted from the network address (so: pairwise distinct,
\* ascending, carried through the bytes, ending at the last address), and it
\* still denotes it when the enumeration has returned
C16_EnumerationIsTheSubnetInOrder ==
    Enumerated =>
        /\ Len(calc.longs) = Pow2(HostBits(calc.target))
        /\ \A k \in 1..Len(calc.longs) :
              addressOf(calc.longs[k]) = NthAddress(calc.target, k - 1)

\* the same for IPv4 subnets alone, whose elements are values, with the carry
\* into the third byte; on the subnets the control plane is given, the steps
\* agree with parseNetToLongs taken in one piece
EnumerationOfIPv4 ==
    (Enumerated /\ Len(calc.target.ip) = 4) =>
        /\ Len(calc.longs) = Pow2(HostBits(calc.target))
        /\ \A k \in 1..Len(calc.longs) :
              addressOf(calc.longs[k]) = NthAddress(calc.target, k - 1)
        /\ HostBits(calc.target) <= MaxHostBits =>
              [k \in 1..Len(calc.longs) |-> calc.longs[k].val] = parseNetToLongs(calc.target)

\* C17: the IPv6 subnet derived from an IPv4 subnet S by the fd00:: embedding
\* has as many addresses as S, and enumerating it gives the set of the
\* embedded addresses of the enumeration of S
C17_EnumerateThenMapIsMapThenEnumerate ==
    \A S \in {T \in EnumTargets4 : HostBits(T) <= MaxHostBits} :
        (Enumerated /\ calc.target = generateIPv6Net(IPv4String(S.ip[1], S.ip[2], S.ip[3],
                                                                  S.ip[4]))) =>
            LET longs == parseNetToLongs(S)
                mapped == {generateIPv6(IPv4String(l[1], l[2], l[3], l[4])) :
                              l \in {KeyBytes(longs[k]) : k \in 1..Len(longs)}}
            IN  /\ Pow2(HostBits(calc.target)) = Pow2(HostBits(S))
                /\ Len(calc.longs) = Len(longs)
                /\ {GroupsOf(addressOf(calc.longs[k])) : k \in 1..Len(calc.longs)} = mapped

\* C20: after Stop has returned, the objects of every registered machine are
\* closed, also when the Close of one machine reported an error: every machine
\* other than the one whose Close failed is closed (checked under SpecStop)
C20_StopClosesEveryMachine ==
    last.op = "Stop" =>
        \A m \in DOMAIN vms : m # last.at => loaded[vms[m].objs] = "closed"

(***************************************************************************)
(* Properties of address derivation (checked under SpecAddr)               *)
(***************************************************************************)
Derived == calc.fn = "generateIPv6" /\ calc.pc = "done"

HostAddress(ip) == generateIPv6(IPv4String(ip[1], ip[2], ip[3], ip[4]))

\* C23: the mapping from an IPv4 address to its IPv6 mesh address is
\* injective, on the host and on the guest: no other address has the image of
\* the address just mapped; and no other node identifier of 0..253 has the
\* IPv4 address or an IPv6 address of the node just mapped
C23_MappingInjective ==
    Derived =>
        /\ \A b \in AddrInputs \cup {meshIPv4(m) : m \in NodeIds} :
              b # calc.ip => HostAddress(b) # calc.host /\ add_ipv6(b) # calc.guest
        /\ calc.node # -1 =>
              \A m \in NodeIds \ {calc.node} :
                  /\ meshIPv4(m) # calc.ip
                  /\ HostAddress(meshIPv4(m)) # calc.host
                  /\ add_ipv6(meshIPv4(m)) # calc.guest

\* 10.0.1.16 has been mapped, whose hexadecimal digits 1 and 10 run together
\* read like those of 10.0.17.0
C23_Witness ==
    /\ Derived
    /\ calc.ip = <<10, 0, 1, 16>>
    /\ calc.host = <<64768, 0, 0, 0, 10, 0, 1, 16>>
    /\ <<10, 0, 17, 0>> \in AddrInputs

\* C24 as amended: every derived IPv6 address, on the host and on the guest,
\* is fd00 followed by three zero groups and four groups that each hold one
\* octet of the IPv4 address, in order
C24_Fd00ThenOctetPerGroup ==
    Derived =>
        /\ calc.host = <<64768, 0, 0, 0, calc.ip[1], calc.ip[2], calc.ip[3], calc.ip[4]>>
        /\ calc.guest = calc.host

\* the address of the node identifier 253 has been derived: fd00::a:0:0:ff
C24_Witness ==
    /\ Derived
    /\ calc.node = MaxNodeId
    /\ calc.host = <<64768, 0, 0, 0, 10, 0, 0, 255>>
    /\ calc.guest = <<64768, 0, 0, 0, 10, 0, 0, 255>>

\* C24: every derived IPv6 address is the group fd00, six zero groups, and the
\* four octets of the IPv4 address as two 16-bit groups
C24_Fd00SixZeroGroupsTwoGroups ==
    Derived =>
        LET packed == <<64768, 0, 0, 0, 0, 0, 0, calc.ip[1] * 256 + calc.ip[2],
                        calc.ip[3] * 256 + calc.ip[4]>>
        IN  calc.host = packed /\ calc.guest = packed

TableOf(k, eth) ==
    IF eth = "ETH_P_IP" THEN IP_HANDLE_KBPS_DELAY[k] ELSE IPV6_HANDLE_KBPS_DELAY[k]

FlowOf(k, eth) == IF eth = "ETH_P_IP" THEN ipv4_flow_map[k] ELSE ipv6_flow_map[k]

\* a packet of a shaped class has just left tc_main
ShapedPacket == skb.seen /\ skb.shaped

\* a packet with a shaping entry of nonzero rate has just left tc_main
PacedPacket == skb.seen /\ skb.hit /\ skb.entry.throttleRateKbps # 0

\* the addresses of the guests of subnet S, IPv4 or IPv6 by the frame type
GuestAddrs(S, eth) ==
    IF eth = "ETH_P_IP" THEN SubnetAddrs(S) ELSE {add_ipv6(a) : a \in SubnetAddrs(S)}

\* the machine behind object set k has rate 0 in force for a subnet holding addr
ZeroRateInForce(k, eth, addr) ==
    \E m \in DOMAIN vms :
        /\ vms[m].objs = k
        /\ \E key \in DOMAIN vms[m].hbd :
              /\ vms[m].hbd[key].throttleRateKbps = 0
              /\ addr \in GuestAddrs([ip |-> key[1], bits |-> key[2]], eth)

\* C1: once SetBandwidth(m, d, 0) has succeeded, every later IPv4 or IPv6 packet
\* of a shaped class (TCP, UDP, ICMP on IPv4, ICMPv6 on IPv6) addressed to an
\* address of d is dropped, until a later call sets a nonzero rate for d
C1_ZeroRateDropsTrafficToSubnet ==
    (ShapedPacket /\ ZeroRateInForce(skb.objs, skb.eth, skb.daddr)) => skb.ret = TC_ACT_SHOT

BurstT == txDelayNs(burst.len, burst.rate)

\* C5 (as amended): in a burst of same-size packets at a fixed nonzero rate to a
\* flow without prior state, the first departure is the time the first packet
\* is seen, and the k-th is the later of the (k-1)-th plus one transmission time
\* T and the time the k-th packet is seen; so departures never decrease, are at
\* least T apart, and are exactly t0 + (k-1)*T as long as every packet is seen
\* no later than its slot
C5_BurstDepartures ==
    burst.on =>
        /\ burst.n = 1 => burst.dep = burst.t0
        /\ burst.n > 1 =>
              /\ burst.dep = TsMax(burst.seen, TsAdd(burst.prev, BurstT))
              /\ TsLeq(TsAdd(burst.prev, BurstT), burst.dep)
        /\ burst.inSlot => burst.dep = TsAdd(burst.t0, TsTimes(burst.n - 1, BurstT))

\* the second packet of a burst was seen before its slot and departs at t0 + T
C5_Witness ==
    /\ burst.on
    /\ burst.n = 2
    /\ burst.inSlot
    /\ TsLt(burst.seen, burst.dep)
    /\ burst.dep = TsAdd(burst.t0, BurstT)

\* C5 (as stated): the k-th departure of a burst of packets that carry no preset
\* departure time is exactly t0 + (k-1)*T
C5_ExactSpacing ==
    (burst.on /\ ~burst.preset) =>
        burst.dep = TsAdd(burst.t0, TsTimes(burst.n - 1, BurstT))

\* floor(8 * len * 10^6 / R) ns, len * 10^6 split as q * R + r to stay in range
BitTimeNs(len, R) ==
    LET q == (len * 1000000) \div R
        r == (len * 1000000) % R
    IN  TsAdd(TsTimes(8, TsOfNs(q)), TsOfNs((8 * r) \div R))

\* C6: at rate R kbit/s the bandwidth stage charges a packet of len bytes
\* floor(8 * len * 10^6 / R) ns: a paced packet departs that long after the
\* flow's last departure
C6_ChargesBitTime ==
    (PacedPacket /\ skb.stamped) =>
        TsSub(skb.bw, skb.lastTs) = BitTimeNs(skb.len, skb.entry.throttleRateKbps)

TwoSeconds == <<2, 0>>

\* the next departure time tc_main computed for the packet that has just left
NextDeparture == TsAdd(skb.lastTs, txDelayNs(skb.len, skb.entry.throttleRateKbps))

\* C7 (as amended): a packet whose computed next departure time lies 2 s or more
\* after now is dropped, unless its own preset departure time is at least as
\* late; for packets without a preset departure time, no forwarded packet is
\* stamped by the bandwidth stage with a time 2 s or more after now, and the
\* flow state written is less than 2 s after now
C7_HorizonBound ==
    PacedPacket =>
        /\ (skb.had /\ TsLt(TsMax(skb.preset, skb.clock), NextDeparture)
               /\ TsLeq(TsAdd(skb.clock, TwoSeconds), NextDeparture)) =>
              /\ skb.ret = TC_ACT_SHOT
              /\ ~skb.stamped
        /\ (skb.preset = TsZero /\ skb.ret = TC_ACT_OK) =>
              /\ skb.stamped => TsLt(skb.bw, TsAdd(skb.clock, TwoSeconds))
              /\ TsLt(FlowOf(skb.objs, skb.eth)[skb.saddr], TsAdd(skb.clock, TwoSeconds))

\* a packet without preset departure time whose next departure lay exactly 2 s
\* ahead was dropped
C7_Witness ==
    /\ PacedPacket
    /\ skb.had
    /\ skb.preset = TsZero
    /\ NextDeparture = TsAdd(skb.clock, TwoSeconds)
    /\ skb.ret = TC_ACT_SHOT

\* C7 (as stated): every packet whose computed next departure time lies 2 s or
\* more after now is dropped
C7_HorizonDropsAll ==
    (PacedPacket /\ skb.had /\ TsLeq(TsAdd(skb.clock, TwoSeconds), NextDeparture)) =>
        skb.ret = TC_ACT_SHOT

\* C8: the congestion threshold is strictly smaller than the drop horizon, and
\* every packet paced with a gap to now of at least the threshold, and below the
\* horizon, is forwarded with the ECN congestion mark
C8_MarkBelowHorizon ==
    /\ TsLt(ECN_HORIZON_NS, TIME_HORIZON_NS)
    /\ (PacedPacket /\ skb.had /\ TsLt(skb.clock, NextDeparture)
           /\ TsLeq(ECN_HORIZON_NS, TsSub(NextDeparture, skb.clock))
           /\ TsLt(TsSub(NextDeparture, skb.clock), TIME_HORIZON_NS)) =>
          (skb.ret = TC_ACT_OK /\ skb.ce)

\* C9: a forwarded packet with a shaping entry leaves with the bandwidth stage's
\* time plus the delay if that stage stamped it and with now plus the delay
\* otherwise, so never earlier than now plus the delay
C9_DelayOnTop ==
    (skb.seen /\ skb.hit /\ skb.ret = TC_ACT_OK) =>
        /\ skb.tstamp = TsAdd(IF skb.stamped THEN skb.bw ELSE skb.clock2,
                              UsToNs(skb.entry.delayUs))
        /\ TsLeq(TsAdd(skb.clock, UsToNs(skb.entry.delayUs)), skb.tstamp)

\* the flow map never loses a key and never lowers a stored departure
NonDecreasing(flow, flowNext) ==
    \A k \in DOMAIN flow :
        \A key \in DOMAIN flow[k] :
            /\ key \in DOMAIN flowNext[k]
            /\ TsLeq(flow[k][key], flowNext[k][key])

\* C15: with packets processed one at a time, the clock never running
\* backwards, and rate or latency changes in between, the last scheduled
\* departure stored under any key of either flow map never decreases
C15_FlowStateNonDecreasing ==
    [][/\ NonDecreasing(ipv4_flow_map, ipv4_flow_map')
       /\ NonDecreasing(ipv6_flow_map, ipv6_flow_map')]_vars

\* a forwarded packet has just raised the departure stored for its flow, the
\* latency of the flow having been set as well as its rate
C15_Witness ==
    /\ PacedPacket
    /\ skb.had
    /\ skb.ret = TC_ACT_OK
    /\ skb.entry.delayUs # 0
    /\ TsLt(skb.lastTs, FlowOf(skb.objs, skb.eth)[skb.saddr])

\* a packet the shaper has no business with: not IP, or of a transport
\* protocol outside ICMP/ICMPv6, TCP, UDP, or sent from an address that has no
\* shaping entry in the map of its family
Unqualified(k, p) ==
    \/ p.eth \notin {"ETH_P_IP", "ETH_P_IPV6"}
    \/ p.proto \notin {"IPPROTO_ICMP", "IPPROTO_ICMPV6", "IPPROTO_TCP", "IPPROTO_UDP"}
    \/ lookupAddress(p) \notin DOMAIN TableOf(k, p.eth)

\* C18: tc_main forwards an unqualified packet as it came: verdict TC_ACT_OK,
\* departure timestamp as on entry, no ECN mark, and both flow maps unchanged
C18_UnqualifiedPassesUntouched ==
    [][IF skb'.seen
       THEN \A dev \in ExistingIfs :
               \A p \in {q \in Packets : /\ q.eth = skb'.eth
                                         /\ q.saddr = skb'.saddr
                                         /\ q.daddr = skb'.daddr
                                         /\ q.tstamp = skb'.preset
                                         /\ Unqualified(filters[dev], q)} :
                   tc_main(dev, p, TsZero) =>
                       /\ skb'.ret = TC_ACT_OK
                       /\ skb'.tstamp = p.tstamp
                       /\ ~skb'.ce
                       /\ ~skb'.stamped
                       /\ UNCHANGED flowMaps
       ELSE TRUE]_vars

\* a packet of a shaped protocol has passed untouched for want of an entry
\* for its address, while another address has an entry and a flow state
C18_Witness ==
    /\ skb.seen
    /\ skb.shaped
    /\ ~skb.hit
    /\ skb.ret = TC_ACT_OK
    /\ skb.tstamp = skb.preset
    /\ skb.preset # TsZero
    /\ TableOf(skb.objs, skb.eth) # Empty
    /\ FlowOf(skb.objs, skb.eth) # Empty

\* the departure tc_main stored for the packet that has just left
Departure ==
    IF skb'.stamped THEN skb'.bw ELSE TsMax(skb'.preset, skb'.clock)

\* C19: flow state is kept per family: an IPv6 packet leaves the IPv4 flow map
\* as it was and an IPv4 packet the IPv6 flow map, what tc_main found as the
\* flow's last departure is what the map of the packet's family held, and a
\* forwarded IPv6 packet under a nonzero rate has its departure stored in the
\* IPv6 flow map under its lookup address
C19_FlowStatePerFamily ==
    [][skb'.seen =>
          /\ skb'.eth = "ETH_P_IPV6" => UNCHANGED ipv4_flow_map
          /\ skb'.eth = "ETH_P_IP" => UNCHANGED ipv6_flow_map
          /\ (skb'.hit /\ npkts' # npkts) =>
                /\ skb'.had = (skb'.saddr \in DOMAIN FlowOf(skb'.objs, skb'.eth))
                /\ skb'.had => skb'.lastTs = FlowOf(skb'.objs, skb'.eth)[skb'.saddr]
          /\ (skb'.eth = "ETH_P_IPV6" /\ skb'.hit /\ npkts' # npkts
                /\ skb'.entry.throttleRateKbps # 0 /\ skb'.ret = TC_ACT_OK) =>
                /\ skb'.saddr \in DOMAIN ipv6_flow_map'[skb'.objs]
                /\ ipv6_flow_map'[skb'.objs][skb'.saddr] = Departure]_vars

\* an IPv6 packet from fd00::a:0:0:a has been forwarded and recorded in the
\* IPv6 flow map while the IPv4 flow map holds another departure for 10.0.0.10
C19_Witness ==
    /\ PacedPacket
    /\ skb.eth = "ETH_P_IPV6"
    /\ skb.ret = TC_ACT_OK
    /\ skb.saddr = add_ipv6(PktTarget.ip)
    /\ skb.saddr \in DOMAIN ipv6_flow_map[skb.objs]
    /\ PktTarget.ip \in DOMAIN ipv4_flow_map[skb.objs]
    /\ ipv4_flow_map[skb.objs][PktTarget.ip] # ipv6_flow_map[skb.objs][skb.saddr]

\* the packet that leaves tc_main in this step has a shaping entry
Handled == skb'.seen /\ skb'.hit /\ npkts' = npkts + 1

\* the flow's last departure plus the transmission time of the packet that
\* leaves tc_main in this step
DueAt == TsAdd(skb'.lastTs, txDelayNs(skb'.len, skb'.entry.throttleRateKbps))

\* C31: a packet the bandwidth stage drops (rate 0, or next departure at the
\* horizon) leaves both flow maps as they were, and a packet to a destination
\* of nonzero rate is forwarded whenever the flow has no state or the clock has
\* reached the stored last departure plus the packet's transmission time: no
\* sequence of drops keeps a destination of nonzero rate closed
C31_DropsLeaveFlowState ==
    [][Handled =>
          /\ (skb'.ret = TC_ACT_SHOT => UNCHANGED flowMaps)
          /\ (skb'.entry.throttleRateKbps # 0 /\ (~skb'.had \/ TsLeq(DueAt, skb'.clock))
                => skb'.ret = TC_ACT_OK)]_vars

\* a packet was forwarded on a flow whose stored last departure the clock had
\* passed by a transmission time
C31_Witness ==
    /\ PacedPacket /\ skb.had /\ skb.ret = TC_ACT_OK
    /\ TsLt(skb.lastTs, skb.clock)
    /\ TsLeq(NextDeparture, skb.clock)

\* the packet that leaves tc_main in this step and the packet that left before
\* it were both forwarded under a shaping entry, from the same source to the
\* same destination through the same program
SameFlowForwarded ==
    /\ skb.seen /\ skb.hit /\ skb.ret = TC_ACT_OK
    /\ Handled /\ skb'.ret = TC_ACT_OK
    /\ skb'.objs = skb.objs /\ skb'.eth = skb.eth
    /\ skb'.saddr = skb.saddr /\ skb'.daddr = skb.daddr

\* C32: packets of one flow keep their arrival order: of two forwarded packets
\* handled one after the other, the later one does not get an earlier final
\* departure time than the earlier one
C32_ArrivalOrderKept ==
    [][SameFlowForwarded => TsLeq(skb.tstamp, skb'.tstamp)]_vars

\* what tc_main left as the last departure of the flow of the packet that
\* leaves it in this step
Recorded ==
    IF skb'.eth = "ETH_P_IP" THEN ipv4_flow_map'[skb'.objs][skb'.saddr]
    ELSE ipv6_flow_map'[skb'.objs][skb'.saddr]

\* the time the latency stage of this step started from: the stamp of the
\* bandwidth stage or the one the packet came with, else the clock
DelayedFrom ==
    IF skb'.stamped THEN skb'.bw
    ELSE IF skb'.preset # TsZero THEN skb'.preset ELSE skb'.clock2

\* C33: the latency of the entry is added once to the packet and is no part
\* of the flow state: a forwarded packet leaves the flow's last departure at
\* the time of the bandwidth stage, its final departure time is that stage's
\* time plus the delay, a paced packet departs one transmission time plus the
\* delay after the last departure on record, and two paced packets in a row
\* under one entry depart one transmission time apart
C33_DelayOutsideFlowState ==
    [][(Handled /\ skb'.ret = TC_ACT_OK /\ skb'.entry.delayUs # 0) =>
          /\ Recorded = IF skb'.stamped THEN skb'.bw ELSE TsMax(skb'.preset, skb'.clock)
          /\ skb'.tstamp = TsAdd(DelayedFrom, UsToNs(skb'.entry.delayUs))
          /\ (skb'.stamped => skb'.tstamp = TsAdd(DueAt, UsToNs(skb'.entry.delayUs)))
          /\ (SameFlowForwarded /\ skb.stamped /\ skb'.stamped /\ skb'.entry = skb.entry)
                => TsSub(skb'.tstamp, skb.tstamp)
                     = txDelayNs(skb'.len, skb'.entry.throttleRateKbps)]_vars

\* a packet of an entry with a delay was paced behind an earlier one
C33_Witness ==
    /\ PacedPacket /\ skb.ret = TC_ACT_OK /\ skb.stamped /\ skb.had
    /\ skb.entry.delayUs # 0
    /\ burst.on /\ burst.n >= 2
    /\ skb.tstamp = TsAdd(TsAdd(skb.lastTs, txDelayNs(skb.len, skb.entry.throttleRateKbps)),
                          UsToNs(skb.entry.delayUs))

\* the entry SetBandwidth has just left in the machine's table
StoredEntry == vms[last.id].hbd[IPNetString(last.target)]

\* C34: the rate SetBandwidth stores, in the machine's table and under every
\* address of the target in both kernel maps, is the rate it was asked for,
\* for requests of the whole 64-bit range: a request other than 0 never
\* stores the rate 0, which drops all traffic
C34_StoredRateIsRequested ==
    CallOk("SetBandwidth") =>
        /\ W64(StoredEntry.throttleRateKbps) = last.arg
        /\ AllHold(vms[last.id].objs, last.target, StoredEntry)
        /\ (last.arg # W64(0) => StoredEntry.throttleRateKbps # 0)

\* C35: the latency stage adds delayUs * 1000 ns to the departure time of the
\* packet, for every delayUs that SetLatency takes, without wrap-around
C35_DelayIsMicrosecondsTimes1000 ==
    (skb.seen /\ skb.hit /\ skb.ret = TC_ACT_OK) =>
        TsSub(skb.tstamp,
              IF skb.stamped THEN skb.bw
              ELSE IF skb.preset # TsZero THEN skb.preset ELSE skb.clock2)
          = UsToNs(skb.entry.delayUs)

\* every flow map that existed before the step holds what it held, and a flow
\* map the step made is empty
FlowStateKept ==
    /\ \A k \in DOMAIN ipv4_flow_map : ipv4_flow_map'[k] = ipv4_flow_map[k]
    /\ \A k \in DOMAIN ipv6_flow_map : ipv6_flow_map'[k] = ipv6_flow_map[k]
    /\ \A k \in DOMAIN ipv4_flow_map' \ DOMAIN ipv4_flow_map : ipv4_flow_map'[k] = Empty
    /\ \A k \in DOMAIN ipv6_flow_map' \ DOMAIN ipv6_flow_map : ipv6_flow_map'[k] = Empty

\* C36: the flow state is the data plane's own: no call of Register,
\* SetBandwidth, SetLatency or Stop makes, changes or removes an entry of a
\* flow map, and a packet that follows a change of its destination's entry is
\* paced from the last departure the flow map held before the change, by the
\* transmission time at the rate in force when the packet arrives
C36_FlowStateDataPlaneOnly ==
    [][/\ (last' # NoCall => FlowStateKept)
       /\ (Handled /\ skb'.saddr \in DOMAIN FlowOf(skb'.objs, skb'.eth)) =>
             /\ skb'.had
             /\ skb'.lastTs = FlowOf(skb'.objs, skb'.eth)[skb'.saddr]
             /\ skb'.entry = TableOf(skb'.objs, skb'.eth)[skb'.saddr]
             /\ (skb'.stamped => skb'.bw = DueAt)]_vars

\* the rate of a destination was changed after its first packet, and the next
\* packet was paced from that packet's departure at the new rate of 4 kbit/s
C36_Witness ==
    /\ PacedPacket /\ skb.ret = TC_ACT_OK /\ skb.stamped /\ skb.had
    /\ ~burst.on
    /\ skb.entry.throttleRateKbps = 4
    /\ skb.bw = TsAdd(skb.lastTs, TickNs)

(***************************************************************************)
(* Properties of concurrent packets (checked under SpecCpu)                *)
(***************************************************************************)
Forwarded(c) == cpus[c].pc = "done" /\ cpus[c].ret = TC_ACT_OK

SameFlow(c, d) ==
    /\ cpus[c].objs = cpus[d].objs
    /\ cpus[c].p.eth = cpus[d].p.eth
    /\ cpus[c].key = cpus[d].key

\* C14: two packets of one flow processed on two CPUs with their lookup,
\* computation and update steps interleaved lose no update: the two forwarded
\* packets get distinct departure slots, at least one transmission time apart,
\* the flow state ends at the later of the two slots, and no update stores a
\* value below the one it replaces
C14_NoLostUpdate ==
    (Forwarded(1) /\ Forwarded(2) /\ SameFlow(1, 2)) =>
        LET a == cpus[1]
            b == cpus[2]
            first == IF TsLt(a.slot, b.slot) THEN a ELSE b
            second == IF TsLt(a.slot, b.slot) THEN b ELSE a
        IN  /\ a.slot # b.slot
            /\ TsLeq(TsAdd(first.slot,
                           txDelayNs(second.p.len, second.entry.throttleRateKbps)),
                     second.slot)
            /\ FlowOf(a.objs, a.p.eth)[a.key] = second.slot
            /\ TsLeq(a.lastTs, a.slot)
            /\ TsLeq(b.lastTs, b.slot)

\* the same for two packets handled one after the other: the second CPU
\* enters tc_main when the first has returned
SequentialKeepsUpdates ==
    (Forwarded(1) /\ Forwarded(2) /\ SameFlow(1, 2)
        /\ ~cpus[1].overlap /\ ~cpus[2].overlap) => C14_NoLostUpdate

====
